---- MODULE Spec2Model ----
(***************************************************************************)
(* Model of the Elementor JSON compressor (compressElementorJSON and its   *)
(* recursive cleaner `clean`).  A decoded JSON tree is a tagged value:     *)
(* null, string, number, boolean, list, or map.  A map keeps its pairs in  *)
(* insertion order, as a JavaScript object does for string keys.           *)
(***************************************************************************)
EXTENDS Integers, Sequences, FiniteSets, TLC

VARIABLES input, input0, options, pc, result, trace, calls,
          inputJSON, outputJSON, stats, isProcessing, toast,
          lastProcessedInput, timers, toastTimeoutRef, sinceInput, autoRuns

\* the state and the refs of the App component that the conversion reads or
\* writes, its pending timers, and two history variables: the time since the
\* input text last changed and the number of debounce callbacks that ran since
\* the user last acted
appVars == <<inputJSON, outputJSON, stats, isProcessing, toast,
             lastProcessedInput, timers, toastTimeoutRef, sinceInput, autoRuns>>

vars == <<input, input0, options, pc, result, trace, calls, appVars>>

-----------------------------------------------------------------------------
(* Decoded JSON values *)

Null == [null |-> TRUE]
Undefined == [undef |-> TRUE]
Str(x) == [s |-> x]
Num(x) == [n |-> x]
Bool(x) == [b |-> x]
List(items) == [l |-> items]
Map(pairs) == [m |-> pairs]

\* no timer is pending
NoTimer == [none |-> TRUE]
NoToast == [show |-> FALSE, success |-> FALSE, message |-> ""]

\* the App component after construction
AppMounted ==
  /\ inputJSON = ""
  /\ outputJSON = ""
  /\ stats = Null
  /\ isProcessing = FALSE
  /\ toast = NoToast
  /\ lastProcessedInput = ""
  /\ timers = {}
  /\ toastTimeoutRef = NoTimer
  /\ sinceInput = 0
  /\ autoRuns = 0

IsNull(v) == "null" \in DOMAIN v
IsUndefined(v) == "undef" \in DOMAIN v
IsStr(v) == "s" \in DOMAIN v
IsNum(v) == "n" \in DOMAIN v
IsBool(v) == "b" \in DOMAIN v
IsList(v) == "l" \in DOMAIN v
IsMap(v) == "m" \in DOMAIN v

\* item === null || item === undefined
IsNullish(v) == IsNull(v) \/ IsUndefined(v)

\* JavaScript truthiness of a decoded value
Truthy(v) ==
  CASE IsNullish(v) -> FALSE
    [] IsStr(v) -> v.s # ""
    [] IsNum(v) -> v.n # 0
    [] IsBool(v) -> v.b
    [] OTHER -> TRUE

\* `key in obj`
Has(obj, k) == \E i \in 1..Len(obj.m) : obj.m[i][1] = k

\* obj[key]: the value, or undefined when the key is absent
Get(obj, k) ==
  IF IsMap(obj) /\ Has(obj, k)
    THEN LET i == CHOOSE j \in 1..Len(obj.m) : obj.m[j][1] = k IN obj.m[i][2]
    ELSE Undefined

\* obj[key] = v: an existing key keeps its position, a new key goes last
Put(obj, k, v) ==
  IF Has(obj, k)
    THEN Map([i \in 1..Len(obj.m) |->
                IF obj.m[i][1] = k THEN <<k, v>> ELSE obj.m[i]])
    ELSE Map(Append(obj.m, <<k, v>>))

\* delete obj[key]
Delete(obj, k) == Map(SelectSeq(obj.m, LAMBDA p : p[1] # k))

\* delete obj[k] for every k of keys
DeleteKeys(obj, keys) == Map(SelectSeq(obj.m, LAMBDA p : p[1] \notin keys))

\* Object.keys(obj)
Keys(obj) == {obj.m[i][1] : i \in 1..Len(obj.m)}

\* key.startsWith(prefix)
StartsWith(k, p) == Len(k) >= Len(p) /\ SubSeq(k, 1, Len(p)) = p

-----------------------------------------------------------------------------
(* sanitizeToId *)

UpperChars == "ABCDEFGHIJKLMNOPQRSTUVWXYZ"
LowerChars == "abcdefghijklmnopqrstuvwxyz"

\* one character of String.prototype.toLowerCase
LowerChar(c) ==
  IF \E i \in 1..Len(UpperChars) : SubSeq(UpperChars, i, i) = c
    THEN LET i == CHOOSE j \in 1..Len(UpperChars) : SubSeq(UpperChars, j, j) = c
         IN SubSeq(LowerChars, i, i)
    ELSE c

\* String.prototype.toLowerCase, one half of the string after the other
RECURSIVE ToLowerCase(_)
ToLowerCase(str) ==
  IF Len(str) <= 1 THEN LowerChar(str)
  ELSE ToLowerCase(SubSeq(str, 1, Len(str) \div 2))
         \o ToLowerCase(SubSeq(str, Len(str) \div 2 + 1, Len(str)))

\* the character class [\s\-\/]
IsSepChar(c) == c \in {" ", "\t", "\n", "-", "/"}

\* what .replace(/[\s\-\/]+/g, '_') leaves of the i-th character: the first
\* character of a maximal run becomes the underscore, the others of the run vanish
ReplacedAt(str, i) ==
  IF ~IsSepChar(SubSeq(str, i, i)) THEN SubSeq(str, i, i)
  ELSE IF i > 1 /\ IsSepChar(SubSeq(str, i - 1, i - 1)) THEN ""
  ELSE "_"

\* the replacement of the characters lo..hi
RECURSIVE ReplaceSepRuns(_, _, _)
ReplaceSepRuns(str, lo, hi) ==
  IF lo > hi THEN ""
  ELSE IF lo = hi THEN ReplacedAt(str, lo)
  ELSE ReplaceSepRuns(str, lo, (lo + hi) \div 2)
         \o ReplaceSepRuns(str, (lo + hi) \div 2 + 1, hi)

\* .replace(/[\s\-\/]+/g, '_')
ReplaceSeparators(str) == ReplaceSepRuns(str, 1, Len(str))

RECURSIVE TrimLeadingUnderscores(_)
TrimLeadingUnderscores(str) ==
  IF str # "" /\ SubSeq(str, 1, 1) = "_"
    THEN TrimLeadingUnderscores(SubSeq(str, 2, Len(str)))
    ELSE str

RECURSIVE TrimTrailingUnderscores(_)
TrimTrailingUnderscores(str) ==
  IF str # "" /\ SubSeq(str, Len(str), Len(str)) = "_"
    THEN TrimTrailingUnderscores(SubSeq(str, 1, Len(str) - 1))
    ELSE str

\* .replace(/^_+|_+$/g, '')
TrimUnderscores(str) == TrimTrailingUnderscores(TrimLeadingUnderscores(str))

sanitizeToId(str) == TrimUnderscores(ReplaceSeparators(ToLowerCase(str)))

-----------------------------------------------------------------------------
(* mapPaddingToElementor *)

\* the side as it is configured, without the default
SideAsGiven(p, side) == IF side \in DOMAIN p THEN p[side] ELSE ""

\* p.side || "0": a side that is absent or the empty string gives "0"
SideOrZero(p, side) == IF side \in DOMAIN p /\ p[side] # "" THEN p[side] ELSE "0"

mapPaddingToElementor(p) ==
  Map(<< <<"unit", Str("px")>>,
         <<"isLinked", Bool(FALSE)>>,
         <<"top", Str(SideOrZero(p, "top"))>>,
         <<"right", Str(SideOrZero(p, "right"))>>,
         <<"bottom", Str(SideOrZero(p, "bottom"))>>,
         <<"left", Str(SideOrZero(p, "left"))>> >>)

-----------------------------------------------------------------------------
(* Redundancy predicate and key filters *)

keysToRemovePrefixes ==
  {"background_hover_video", "background_motion_fx", "background_overlay_video",
   "background_overlay_hover", "css_filters_hover", "box_shadow_hover",
   "shape_divider", "sticky"}

\* isRedundantElementorObject without the size/sizes test
isRedundantOnlyWhenEmpty(val) ==
  /\ IsMap(val)
  /\ Len(val.m) = 0

isRedundantElementorObject(val) ==
  /\ IsMap(val)
  /\ \/ /\ Has(val, "size")
        /\ Has(val, "sizes")
        /\ Get(val, "size") = Str("")
        /\ IsList(Get(val, "sizes"))
        /\ Len(Get(val, "sizes").l) = 0
     \/ Len(val.m) = 0

\* every key with the prefix is dropped, whatever the option
IsMotionKeyAlways(opts, key) == StartsWith(key, "motion_fx_")

\* options.removeMotionFX && key.startsWith('motion_fx_')
IsMotionKey(opts, key) == opts.removeMotionFX /\ StartsWith(key, "motion_fx_")

\* options.rtlize && (key === 'uich_custom_css_field' || some prefix matches)
IsMirrorArtifactKey(opts, key) ==
  /\ opts.rtlize
  /\ \/ key = "uich_custom_css_field"
     \/ \E p \in keysToRemovePrefixes : StartsWith(key, p)

IsCustomWidthKey(key) ==
  key = "_element_custom_width" \/ key = "_element_custom_width_tablet"

FullWidth == Map(<< <<"unit", Str("%")>>, <<"size", Num(100)>>, <<"sizes", List(<<>>)>> >>)

-----------------------------------------------------------------------------
(* Object identity.  A map or list handled by the cleaner is either an    *)
(* object of the caller's tree, named by its path from the top, or an     *)
(* object allocated during the call.  Scalars have no identity.           *)

FreshRef == [fresh |-> TRUE]
ScalarRef == [scalar |-> TRUE]
InputRef(path) == [path |-> path]
IsInputRef(r) == "path" \in DOMAIN r

\* the caller's tree after assigning newVal to the object at `path`
RECURSIVE SetAt(_, _, _)
SetAt(tree, path, newVal) ==
  IF path = <<>> THEN newVal
  ELSE IF IsMap(tree)
    THEN Map([i \in 1..Len(tree.m) |->
                IF tree.m[i][1] = Head(path)
                  THEN <<tree.m[i][1], SetAt(tree.m[i][2], Tail(path), newVal)>>
                  ELSE tree.m[i]])
  ELSE IF IsList(tree)
    THEN List([i \in 1..Len(tree.l) |->
                IF ToString(i) = Head(path)
                  THEN SetAt(tree.l[i], Tail(path), newVal)
                  ELSE tree.l[i]])
  ELSE tree

\* a property write or delete on the object `ref`, leaving it equal to newVal
NoteWrite(st, ref, newVal) ==
  IF IsInputRef(ref)
    THEN [st EXCEPT !.heap = SetAt(st.heap, ref.path, newVal),
                    !.written = st.written \cup {ref.path}]
    ELSE st

\* the object `ref` is stored into a freshly built map or list of the output
NoteStore(st, ref) ==
  IF IsInputRef(ref) THEN [st EXCEPT !.shared = st.shared \cup {ref.path}] ELSE st

-----------------------------------------------------------------------------
(* Hierarchy classification of an object node *)

\* Classify with the fallback for a container outside the root elements array
\* not looking at sectionHolderFound
ClassifyEveryTopContainer(isRootElementsArray, isContainer, found, containerLevel) ==
  IF isRootElementsArray /\ isContainer /\ ~found
    THEN [mother |-> TRUE, level |-> 1, found |-> TRUE]
  ELSE IF isContainer
    THEN IF containerLevel >= 1
           THEN [mother |-> FALSE, level |-> containerLevel + 1, found |-> found]
         ELSE [mother |-> TRUE, level |-> 1, found |-> TRUE]
  ELSE [mother |-> FALSE, level |-> containerLevel, found |-> found]

\* Classify with a nested container left at the level of its parent
ClassifySameLevel(isRootElementsArray, isContainer, found, containerLevel) ==
  IF isRootElementsArray /\ isContainer /\ ~found
    THEN [mother |-> TRUE, level |-> 1, found |-> TRUE]
  ELSE IF isContainer
    THEN IF containerLevel >= 1
           THEN [mother |-> FALSE, level |-> containerLevel, found |-> found]
         ELSE IF ~found
           THEN [mother |-> TRUE, level |-> 1, found |-> TRUE]
         ELSE [mother |-> FALSE, level |-> 2, found |-> found]
  ELSE [mother |-> FALSE, level |-> containerLevel, found |-> found]

Classify(isRootElementsArray, isContainer, found, containerLevel) ==
  IF isRootElementsArray /\ isContainer /\ ~found
    THEN [mother |-> TRUE, level |-> 1, found |-> TRUE]
  ELSE IF isContainer
    THEN IF containerLevel >= 1
           THEN [mother |-> FALSE, level |-> containerLevel + 1, found |-> found]
         ELSE IF ~found
           THEN [mother |-> TRUE, level |-> 1, found |-> TRUE]
         ELSE [mother |-> FALSE, level |-> 2, found |-> found]
  ELSE [mother |-> FALSE, level |-> containerLevel, found |-> found]

-----------------------------------------------------------------------------
(* Automatic container naming *)

\* the naming path of the ordinal-th container of a sibling list
ExtendNamePath(namePath, ordinal) ==
  IF namePath = "" THEN ToString(ordinal) ELSE namePath \o "-" \o ToString(ordinal)

ComputedTitle(level, namePath) ==
  IF level = 1 THEN "Section " \o namePath
  ELSE IF level = 2 THEN "Container " \o namePath
  ELSE "Inner " \o namePath

AutoName(settings, ctx, opts) ==
  IF opts.autoRename /\ ctx.namePath # ""
    THEN LET titled == Put(settings, "_title", Str(ComputedTitle(ctx.level, ctx.namePath)))
         IN IF ctx.mother
              THEN Put(titled, "_element_id", Str("section_" \o ctx.namePath))
              ELSE titled
    ELSE settings

-----------------------------------------------------------------------------
(* Container rules applied to the cleaned settings map of a container *)

DeleteMargins(settings) ==
  DeleteKeys(settings, {"margin", "margin_tablet", "margin_mobile"})

ApplyPadding(settings, padding) ==
  Put(Put(Put(settings, "padding", mapPaddingToElementor(padding.desktop)),
          "padding_tablet", mapPaddingToElementor(padding.tablet)),
      "padding_mobile", mapPaddingToElementor(padding.mobile))

\* padding, padding_tablet and padding_mobile when the option is enabled
OptionalPadding(settings, enabled, padding) ==
  IF enabled THEN ApplyPadding(settings, padding) ELSE settings

\* content_width, width and the mother padding
MotherBase(settings, opts) ==
  OptionalPadding(Put(Put(settings, "content_width", Str("full")), "width", FullWidth),
                  opts.applyMotherPadding, opts.motherPadding)

\* if (cleanedValue['_title']) _element_id = sanitizeToId(cleanedValue['_title'])
MotherId(settings, title) ==
  IF ~Truthy(title) THEN [val |-> settings, threw |-> FALSE]
  ELSE IF IsStr(title)
    THEN [val |-> Put(settings, "_element_id", Str(sanitizeToId(title.s))),
          threw |-> FALSE]
  \* str.toLowerCase is not a function: TypeError
  ELSE [val |-> settings, threw |-> TRUE]

MotherMirror(settings) == MotherId(settings, Get(settings, "_title"))

\* Level 1: Mother Section
MotherRules(settings, opts) ==
  IF opts.rtlize
    THEN MotherMirror(Put(MotherBase(settings, opts), "flex_direction", Str("row-reverse")))
    ELSE [val |-> MotherBase(settings, opts), threw |-> FALSE]

\* content_width, the deleted widths and the level 2 padding
NestedBase(settings, opts) ==
  OptionalPadding(
    DeleteKeys(Put(settings, "content_width", Str("boxed")),
               {"width", "width_tablet", "width_mobile"}),
    opts.applyLevel2Padding, opts.level2Padding)

\* flex_direction is set to row-reverse whatever it was, as on the mother
NestedMirrorAlways(settings) == Put(settings, "flex_direction", Str("row-reverse"))

\* row and row-reverse are exchanged
NestedMirrorToggle(settings) ==
  IF Get(settings, "flex_direction") = Str("row")
    THEN Put(settings, "flex_direction", Str("row-reverse"))
  ELSE IF Get(settings, "flex_direction") = Str("row-reverse")
    THEN Put(settings, "flex_direction", Str("row"))
  ELSE settings

\* if (cleanedValue['flex_direction'] === 'row') ... = 'row-reverse'
NestedMirror(settings) ==
  IF Get(settings, "flex_direction") = Str("row")
    THEN Put(settings, "flex_direction", Str("row-reverse"))
    ELSE settings

\* Level 2+: Nested Containers
NestedRules(settings, opts) ==
  [val |-> IF opts.rtlize
             THEN NestedMirror(Put(NestedBase(settings, opts), "flex_size", Str("none")))
             ELSE NestedBase(settings, opts),
   threw |-> FALSE]

\* the rules of the node's level, on the settings without margins
LevelRules(settings, ctx, opts) ==
  IF ctx.mother THEN MotherRules(settings, opts)
  ELSE IF ctx.level >= 2 THEN NestedRules(settings, opts)
  ELSE [val |-> settings, threw |-> FALSE]

ContainerRules(settings, ctx, opts) ==
  LevelRules(AutoName(DeleteMargins(settings), ctx, opts), ctx, opts)

\* isInner Logic
InnerFlag(ctx) == Bool(~ctx.mother)

\* RTL: flex_direction directly under a settings key
MirrorFlex(cv, key, ctx, opts) ==
  IF /\ opts.rtlize
     /\ ctx.parentKey = <<"settings">>
     /\ key = "flex_direction"
     /\ cv = Str("row")
     /\ ~ctx.isContainer
    THEN Str("row-reverse")
    ELSE cv

\* if (isIconBox) cleanedValue['text_align'] = 'start'
IconBoxAlign(cv, ctx) ==
  IF ctx.isIconBox THEN Put(cv, "text_align", Str("start")) ELSE cv

\* RTL Widget Alignments on the cleaned settings map
WidgetAlign(cv, key, ctx, opts) ==
  IF opts.rtlize /\ key = "settings" /\ IsMap(cv)
    THEN IconBoxAlign(IF ctx.isTextEditor THEN Put(cv, "align", Str("start")) ELSE cv, ctx)
    ELSE cv

\* no empty map is pruned
IsPrunedNever(cv, key) == FALSE

\* the empty-map pruning: an empty cleaned map is kept only under these keys
IsPrunedEmpty(cv, key) ==
  IsMap(cv) /\ Len(cv.m) = 0 /\ key # "settings" /\ key # "elements"

-----------------------------------------------------------------------------
(* The recursive cleaner.  `st` carries the closure state of one call      *)
(* (removedCount, sectionHolderFound), whether an exception was raised,    *)
(* the caller's tree, and a record of what the traversal did.              *)

\* the counter and the flag of the call before are carried into this one
InitialStateKept(obj) ==
  [cnt |-> IF calls = <<>> THEN 0 ELSE calls[Len(calls)].removedCount,
   found |-> IF calls = <<>> THEN FALSE ELSE calls[Len(calls)].found,
   threw |-> FALSE, heap |-> obj,
   written |-> {}, shared |-> {}, entered |-> 0, visits |-> <<>>, lists |-> <<>>]

\* let removedCount = 0; let sectionHolderFound = false;
InitialState(obj) ==
  [cnt |-> 0, found |-> FALSE, threw |-> FALSE, heap |-> obj,
   written |-> {}, shared |-> {}, entered |-> 0, visits |-> <<>>, lists |-> <<>>]

IsContainerNode(val) == IsMap(val) /\ Get(val, "elType") = Str("container")

\* if (isContainer && key === 'settings' && cleanedValue && typeof ... === 'object')
RulesApply(cv, key, ctx) == ctx.isContainer /\ key = "settings" /\ IsMap(cv)

\* if (key === 'isInner' && isContainer)
IsInnerOverridden(key, ctx) == key = "isInner" /\ ctx.isContainer

\* the cleaned settings map is written to by the container rules or the alignments
SettingsWritten(cv, key, ctx, opts) ==
  /\ IsMap(cv)
  /\ key = "settings"
  /\ (ctx.isContainer \/ (opts.rtlize /\ (ctx.isTextEditor \/ ctx.isIconBox)))

\* the isInner override, then the RTL adjustments
Adjust(cv, key, ctx, opts) ==
  WidgetAlign(MirrorFlex(IF IsInnerOverridden(key, ctx) THEN InnerFlag(ctx) ELSE cv,
                         key, ctx, opts),
              key, ctx, opts)

\* the keys that the container rules deleted are counted as removed
ProcessedCountingDeleted(cv, ruled, adjusted, ref, key, ctx, opts, st) ==
  [val |-> adjusted,
   ref |-> IF IsInnerOverridden(key, ctx) THEN ScalarRef ELSE ref,
   st |-> [st EXCEPT !.cnt = IF IsMap(cv) /\ IsMap(ruled)
                                THEN @ + Cardinality(Keys(cv) \ Keys(ruled))
                                ELSE @]]

\* cv is the value the recursion returned, ruled the value after the container
\* rules and adjusted the value after the override and the RTL adjustments
Processed(cv, ruled, adjusted, ref, key, ctx, opts, st) ==
  [val |-> adjusted,
   ref |-> IF IsInnerOverridden(key, ctx) THEN ScalarRef ELSE ref,
   st |-> IF SettingsWritten(cv, key, ctx, opts)
            THEN NoteWrite(st, ref, IF IsInnerOverridden(key, ctx) THEN ruled ELSE adjusted)
            ELSE st]

\* an exception of the container rules leaves the call; otherwise the
\* override and the adjustments follow
AfterRules(cv, rules, ref, key, ctx, opts, st) ==
  IF rules.threw
    THEN [val |-> Undefined, ref |-> ScalarRef, st |-> [st EXCEPT !.threw = TRUE]]
    ELSE Processed(cv, rules.val, Adjust(rules.val, key, ctx, opts), ref, key, ctx, opts, st)

\* the value handed to the cleaner for one key, after the container rules,
\* the isInner override and the RTL adjustments
PostProcess(cv, ref, key, ctx, opts, st) ==
  IF RulesApply(cv, key, ctx)
    THEN AfterRules(cv, ContainerRules(cv, ctx, opts), ref, key, ctx, opts, st)
    ELSE Processed(cv, cv, Adjust(cv, key, ctx, opts), ref, key, ctx, opts, st)

\* StorePair with the pruning of a null or empty value left uncounted
StorePairUncounted(key, post, acc) ==
  IF post.st.threw THEN [acc EXCEPT !.st = post.st]
  ELSE IF IsNullish(post.val) \/ IsPrunedEmpty(post.val, key)
    THEN [acc EXCEPT !.st = post.st]
  ELSE [acc EXCEPT !.obj = Put(@, key, post.val),
                   !.st = NoteStore(post.st, post.ref)]

\* the end of one loop iteration: drop the pair or assign it to cleanedObj
StorePair(key, post, acc) ==
  IF post.st.threw THEN [acc EXCEPT !.st = post.st]
  ELSE IF IsNullish(post.val) \/ IsPrunedEmpty(post.val, key)
    THEN [acc EXCEPT !.st = [post.st EXCEPT !.cnt = @ + 1]]
  ELSE [acc EXCEPT !.obj = Put(@, key, post.val),
                   !.st = NoteStore(post.st, post.ref)]

\* FinishObject adding a missing isInner only to the containers that are inner
FinishObjectInnerOnly(obj, flag, ctx) ==
  LET o1 == IF ctx.isContainer /\ ~ctx.mother /\ ~Has(obj, "isInner")
              THEN Put(obj, "isInner", Bool(TRUE))
              ELSE obj
  IN IF flag THEN Put(o1, "_flex_align_self", Str("flex-start")) ELSE o1

\* FinishObject adding the flex-start override only when the key is missing
FinishObjectKeepAlign(obj, flag, ctx) ==
  LET o1 == IF ctx.isContainer /\ ~Has(obj, "isInner")
              THEN Put(obj, "isInner", Bool(~ctx.mother))
              ELSE obj
  IN IF flag /\ ~Has(o1, "_flex_align_self")
       THEN Put(o1, "_flex_align_self", Str("flex-start"))
       ELSE o1

\* after the loop: isInner is added when missing, then the flex-start override
FinishObject(obj, flag, ctx) ==
  LET o1 == IF ctx.isContainer /\ ~Has(obj, "isInner")
              THEN Put(obj, "isInner", Bool(~ctx.mother))
              ELSE obj
  IN IF flag THEN Put(o1, "_flex_align_self", Str("flex-start")) ELSE o1

\* a filter that also leaves out the lists that are empty
KeepItemsNotEmpty(outs) ==
  SelectSeq(outs, LAMBDA x : ~IsNullish(x) /\ ~(IsList(x) /\ Len(x.l) = 0))

\* the filter of the array branch
KeepItems(outs) == SelectSeq(outs, LAMBDA x : ~IsNullish(x))

\* ArrayResult handing back the caller's array when cleaning changed nothing
ArrayResultReuse(val, outs, path) ==
  IF KeepItems(outs) = val.l
    THEN [out |-> val, ref |-> InputRef(path)]
    ELSE [out |-> List(KeepItems(outs)), ref |-> FreshRef]

\* the array returned by val.map(...).filter(...)
ArrayResult(val, outs, path) == [out |-> List(KeepItems(outs)), ref |-> FreshRef]

\* a call left by an exception returns nothing
Thrown(st) == [out |-> Undefined, ref |-> ScalarRef, st |-> st]

\* the array branch once the items are cleaned: removedCount grows by the
\* number of items the filter left out
FilteredList(val, r, res, path) ==
  [out |-> res.out, ref |-> res.ref,
   st |-> [r.st EXCEPT !.cnt = @ + (Len(r.outs) - Len(res.out.l)),
                       !.lists = Append(@, [path |-> path,
                                            inLen |-> Len(val.l),
                                            outLen |-> Len(res.out.l),
                                            in |-> val.l,
                                            out |-> res.out.l])]]

CleanedList(val, r, path) ==
  IF r.st.threw THEN Thrown(r.st)
  ELSE FilteredList(val, r, ArrayResult(val, r.outs, path), path)

\* isContainer, isTextEditor, isIconBox, isMotherSection and currentElementLevel
NodeContext(val, env, cls) ==
  [parentKey |-> env.parentKey,
   isContainer |-> Get(val, "elType") = Str("container"),
   isTextEditor |-> Get(val, "widgetType") = Str("text-editor"),
   isIconBox |-> Get(val, "widgetType") = Str("icon-box"),
   mother |-> cls.mother,
   level |-> cls.level,
   namePath |-> env.namePath,
   path |-> env.path]

\* return cleanedObj, the ord-th object the traversal entered
ReturnedObject(val, ctx, ord, acc, out) ==
  [out |-> out, ref |-> FreshRef,
   st |-> [acc.st EXCEPT !.visits =
             Append(@, [ord |-> ord, path |-> ctx.path, parentKey |-> ctx.parentKey,
                        in |-> val, loop |-> acc.obj, out |-> out,
                        isContainer |-> ctx.isContainer, mother |-> ctx.mother,
                        level |-> ctx.level, namePath |-> ctx.namePath])]]

CleanedObject(val, ctx, ord, acc) ==
  IF acc.st.threw THEN Thrown(acc.st)
  ELSE ReturnedObject(val, ctx, ord, acc, FinishObject(acc.obj, acc.flag, ctx))

\* [acc EXCEPT removedCount++]
Counted(acc) == [acc EXCEPT !.st.cnt = @ + 1]

\* the arguments of the recursive call for the value of `key`
ChildEnv(key, ctx) ==
  [parentKey |-> <<key>>,
   isRoot |-> (ctx.parentKey = <<>> /\ key = "elements"),
   level |-> ctx.level,
   namePath |-> ctx.namePath,
   path |-> Append(ctx.path, key)]

\* the containers of the sibling list up to and including `item`
OrdinalOf(item, acc) ==
  IF IsContainerNode(item) THEN acc.ordinal + 1 ELSE acc.ordinal

\* the arguments of the call for the i-th item, the ord-th container of its list
ItemEnv(item, i, ord, env) ==
  [env EXCEPT !.path = Append(@, ToString(i)),
              !.namePath = IF IsContainerNode(item) THEN ExtendNamePath(@, ord) ELSE @]

\* the cleaned item r joins the mapped array
ItemStored(acc, ord, r) ==
  IF r.st.threw THEN [acc EXCEPT !.st = r.st]
  ELSE [outs |-> Append(acc.outs, r.out),
        st |-> IF IsNullish(r.out) THEN r.st ELSE NoteStore(r.st, r.ref),
        ordinal |-> ord]

RECURSIVE Clean(_, _, _, _)
RECURSIVE CleanItems(_, _, _, _, _)
RECURSIVE CleanItem(_, _, _, _, _)
RECURSIVE CleanPairs(_, _, _, _, _)
RECURSIVE CleanPair(_, _, _, _, _)

\* the object branch: the loop over the keys, then the steps after the loop
EnterObject(val, env, opts, st, cls) ==
  CleanedObject(val, NodeContext(val, env, cls), st.entered + 1,
                CleanPairs(val.m, Len(val.m), NodeContext(val, env, cls), opts,
                           [obj |-> Map(<<>>), flag |-> FALSE,
                            st |-> [st EXCEPT !.found = cls.found, !.entered = @ + 1]]))

\* env = [parentKey, isRoot, level, namePath, path]
Clean(val, env, opts, st) ==
  IF IsMap(val)
    THEN EnterObject(val, env, opts, st,
                     Classify(env.isRoot, Get(val, "elType") = Str("container"),
                              st.found, env.level))
  ELSE IF IsList(val)
    THEN CleanedList(val,
                     CleanItems(val.l, Len(val.l), env, opts,
                                [outs |-> <<>>, st |-> st, ordinal |-> 0]),
                     env.path)
  ELSE [out |-> val, ref |-> ScalarRef, st |-> st]

\* one call of the map callback, for the i-th item
CleanItem(items, i, env, opts, acc) ==
  IF acc.st.threw THEN acc
  ELSE ItemStored(acc, OrdinalOf(items[i], acc),
                  Clean(items[i], ItemEnv(items[i], i, OrdinalOf(items[i], acc), env),
                        opts, acc.st))

\* val.map(item => clean(item, parentKey, isRootElementsArray, containerLevel)):
\* the mapped array and the closure state after the first n items
CleanItems(items, n, env, opts, init) ==
  IF n = 0 THEN init
  ELSE CleanItem(items, n, env, opts, CleanItems(items, n - 1, env, opts, init))

\* the recursion returned r for the value of `key`
CleanedValue(key, ctx, opts, acc, r) ==
  IF r.st.threw THEN [acc EXCEPT !.st = r.st]
  ELSE StorePair(key, PostProcess(r.out, r.ref, key, ctx, opts, r.st), acc)

\* the redundancy test comes before the test of the key _element_width
PairRuleRedundantFirst(key, value, opts) ==
  IF IsMotionKey(opts, key) THEN "motion"
  ELSE IF IsMirrorArtifactKey(opts, key) THEN "artifact"
  ELSE IF IsCustomWidthKey(key) THEN "customWidth"
  ELSE IF isRedundantElementorObject(value) THEN "redundant"
  ELSE IF key = "_element_width" THEN "width"
  ELSE "clean"

\* the branch of the loop body that the pair takes
PairRule(key, value, opts) ==
  IF IsMotionKey(opts, key) THEN "motion"
  ELSE IF IsMirrorArtifactKey(opts, key) THEN "artifact"
  ELSE IF key = "_element_width" THEN "width"
  ELSE IF IsCustomWidthKey(key) THEN "customWidth"
  ELSE IF isRedundantElementorObject(value) THEN "redundant"
  ELSE "clean"

\* the branches that end the iteration without a recursive call
HandledPair(rule, key, acc) ==
  IF rule = "width" THEN [acc EXCEPT !.obj = Put(@, key, Str(""))]
  ELSE IF rule = "customWidth" THEN [Counted(acc) EXCEPT !.flag = TRUE]
  ELSE Counted(acc)

\* one iteration of the loop over the keys of an object
CleanPair(key, value, ctx, opts, acc) ==
  IF acc.st.threw THEN acc
  ELSE IF PairRule(key, value, opts) = "clean"
    THEN CleanedValue(key, ctx, opts, acc, Clean(value, ChildEnv(key, ctx), opts, acc.st))
  ELSE HandledPair(PairRule(key, value, opts), key, acc)

\* for (const key in val): the loop state after the first n keys
CleanPairs(pairs, n, ctx, opts, init) ==
  IF n = 0 THEN init
  ELSE CleanPair(pairs[n][1], pairs[n][2], ctx, opts,
                 CleanPairs(pairs, n - 1, ctx, opts, init))

RootEnv ==
  [parentKey |-> <<>>, isRoot |-> FALSE, level |-> 0, namePath |-> "", path |-> <<>>]

\* return { cleaned: clean(obj), removedCount }
Outcome(r) ==
  [cleaned |-> r.out, removedCount |-> r.st.cnt, threw |-> r.st.threw,
   ref |-> r.ref, st |-> r.st]

compressElementorJSON(obj, opts) == Outcome(Clean(obj, RootEnv, opts, InitialState(obj)))

-----------------------------------------------------------------------------
(* Input documents *)

MaxPairs == 1
MaxTop == 2

Pair(k, v) == <<k, v>>

Placeholder == Map(<<Pair("size", Str("")), Pair("sizes", List(<<>>))>>)
EmptyMap == Map(<<>>)
Box == Map(<<Pair("unit", Str("px")), Pair("top", Str("5"))>>)
HalfWidth == Map(<<Pair("unit", Str("%")), Pair("size", Num(50)), Pair("sizes", List(<<>>))>>)

\* a value with removable content at two levels
Subtree ==
  Map(<<Pair("items", List(<<Null, Str("x")>>)), Pair("typography", Placeholder),
        Pair("_element_width", Str("initial"))>>)

\* candidate pairs of a settings map
PairPool ==
  << Pair("flex_direction", Str("row")),
     Pair("flex_direction", Str("column")),
     Pair("flex_direction", Str("row-reverse")),
     Pair("margin", Box),
     Pair("width", HalfWidth),
     Pair("_title", Str("My Title-A")),
     Pair("_title", Num(7)),
     Pair("_element_id", Str("keep")),
     Pair("_element_custom_width", HalfWidth),
     Pair("_element_custom_width_tablet", Null),
     Pair("_flex_align_self", Str("center")),
     Pair("_element_width", EmptyMap),
     Pair("typography", Placeholder),
     Pair("gap", EmptyMap),
     Pair("extra", Null),
     Pair("motion_fx_scale", Box),
     Pair("sticky_top", Str("on")),
     Pair("nested", Map(<<Pair("inner", EmptyMap)>>)),
     Pair("items", List(<<Null, Str("x"), Placeholder>>)),
     Pair("ghost", Map(<<Pair("size", Str("")), Pair("sizes", List(<<Null>>))>>)),
     Pair("elType", Str("container")),
     Pair("_element_width", Null),
     Pair("_element_width", Placeholder),
     Pair("_element_width", Subtree),
     Pair("grid", List(<<List(<<Null>>), Null, EmptyMap, List(<<Str("a"), Null, Str("b")>>)>>)),
     Pair("align", Str("right")),
     Pair("text_align", Str("center")) >>

\* the pairs of PairPool at the indices of `idx`, in pool order
RECURSIVE PickPairs(_, _)
PickPairs(idx, i) ==
  IF i > Len(PairPool) THEN <<>>
  ELSE (IF i \in idx THEN <<PairPool[i]>> ELSE <<>>) \o PickPairs(idx, i + 1)

DistinctKeys(idx) ==
  \A i, j \in idx : i # j => PairPool[i][1] # PairPool[j][1]

\* settings maps that combine pairs whatever MaxPairs is
CombinedSettings ==
  { Map(<<Pair("_title", Str("My Title-A")), Pair("_element_id", Str("keep")),
          Pair("flex_direction", Str("column")), Pair("width_tablet", HalfWidth)>>),
    Map(<<Pair("_flex_align_self", Str("center")), Pair("_element_custom_width", HalfWidth),
          Pair("_element_custom_width_tablet", HalfWidth)>>),
    Map(<<Pair("margin", Box), Pair("margin_tablet", Box), Pair("width", HalfWidth),
          Pair("padding", Box)>>),
    Map(<<Pair("elType", Str("container")), Pair("flex_direction", Str("row"))>>),
    Map(<<Pair("items", List(<<Null, Str("x"), Placeholder>>)),
          Pair("nested", Map(<<Pair("inner", EmptyMap)>>)), Pair("extra", Null)>>),
    Map(<<Pair("flex_direction", Str("row")), Pair("typography", Placeholder),
          Pair("motion_fx_scale", Box), Pair("sticky_top", Str("on"))>>),
    Map(<<Pair("motion_fx_translateY", Subtree), Pair("sticky_parent", Subtree),
          Pair("background_motion_fx_x", Box), Pair("uich_custom_css_field", Str("css")),
          Pair("motion_fx", EmptyMap), Pair("color", Str("red"))>>) }

\* the sets of at most n indices of PairPool
RECURSIVE IndexSets(_)
IndexSets(n) ==
  IF n = 0 THEN {{}}
  ELSE IndexSets(n - 1) \cup {x \cup {i} : x \in IndexSets(n - 1), i \in 1..Len(PairPool)}

SettingsSet ==
  {Map(PickPairs(idx, 1)) : idx \in {x \in IndexSets(MaxPairs) : DistinctKeys(x)}}
  \cup CombinedSettings

IsInnerVariants == {<<>>, <<Pair("isInner", Bool(FALSE))>>, <<Pair("isInner", Bool(TRUE))>>,
                    <<Pair("isInner", Null)>>, <<Pair("isInner", EmptyMap)>>}

Container(innerPairs, settingsPairs, kids) ==
  Map(<<Pair("elType", Str("container"))>> \o innerPairs \o settingsPairs
      \o <<Pair("elements", List(kids))>>)

Widget(kind, settings) ==
  Map(<<Pair("elType", Str("widget")), Pair("widgetType", Str(kind)),
        Pair("settings", settings)>>)

RowSettings == <<Pair("settings", Map(<<Pair("flex_direction", Str("row"))>>))>>
TitledSettings == <<Pair("settings", Map(<<Pair("_title", Str("Old")), Pair("width", HalfWidth)>>))>>

\* documents that carry one settings map in different positions: on the first
\* container and on a container inside it, on two widgets, and on its own
PropertyDocs ==
  UNION {{ Map(<<Pair("elements",
                      List(<<Container(<<>>, <<Pair("settings", s)>>,
                                       <<Container(<<>>, <<Pair("settings", s)>>, <<>>)>>)>>))>>),
           List(<<Widget("text-editor", s), Widget("icon-box", s)>>),
           s } : s \in SettingsSet}

\* a container of the second level holding a container of the third and a widget
MidNode ==
  Container(<<>>, TitledSettings,
            <<Container(<<Pair("isInner", Bool(FALSE))>>, RowSettings, <<>>),
              Widget("heading", Map(<<Pair("flex_direction", Str("row"))>>))>>)

TopNodes ==
  {Container(v, RowSettings, <<>>) : v \in IsInnerVariants}
  \cup {Container(<<Pair("isInner", Bool(TRUE))>>, RowSettings, <<MidNode>>), Null, Placeholder}

RECURSIVE SeqsUpTo(_, _)
SeqsUpTo(S, n) ==
  IF n = 0 THEN {<<>>}
  ELSE LET shorter == SeqsUpTo(S, n - 1)
       IN shorter \cup {Append(q, x) : q \in shorter, x \in S}

\* documents that vary the nesting and the order of containers
HierarchyDocs ==
  UNION {{ Map(<<Pair("title", Str("page")), Pair("elements", List(q))>>), List(q) }
         : q \in SeqsUpTo(TopNodes, MaxTop)}
  \cup TopNodes

DefaultPadding == [top |-> "10", right |-> "", bottom |-> "10", left |-> "0"]
\* the mobile entry has no left side
DevicePadding == [desktop |-> DefaultPadding, tablet |-> DefaultPadding,
                  mobile |-> [top |-> "", right |-> "7", bottom |-> ""]]

OptionSet ==
  [rtlize : BOOLEAN, removeMotionFX : BOOLEAN, autoRename : BOOLEAN,
   removeMargins : {TRUE},
   applyMotherPadding : BOOLEAN, motherPadding : {DevicePadding},
   applyLevel2Padding : BOOLEAN, level2Padding : {DevicePadding}]

\* the hierarchy documents are compressed with the padding options off
HierarchyOptions ==
  {o \in OptionSet : ~o.applyMotherPadding /\ ~o.applyLevel2Padding /\ ~o.removeMotionFX}

\* a container with margins, inside a container with margins
MarginDocs ==
  { List(<<Container(<<>>, <<Pair("settings", s)>>,
                     <<Container(<<>>, <<Pair("settings", s)>>, <<>>)>>)>>)
    : s \in { Map(<<Pair("margin", Box), Pair("margin_tablet", Subtree),
                    Pair("flex_direction", Str("row"))>>),
              Map(<<Pair("margin", Box), Pair("width", HalfWidth),
                    Pair("sticky_parent", Subtree), Pair("color", Str("red"))>>),
              Map(<<Pair("margin_mobile", Box)>>) } }

\* widgets with alignments of their own, at three depths
AlignedSettings == Map(<<Pair("align", Str("right")), Pair("text_align", Str("center"))>>)

WidgetDocs ==
  { List(<<Widget("text-editor", AlignedSettings),
           Container(<<>>, RowSettings,
                     <<Widget("icon-box", AlignedSettings),
                       Container(<<>>, RowSettings,
                                 <<Widget("text-editor", AlignedSettings),
                                   Widget("icon-box", Map(<<Pair("extra", Null)>>)),
                                   Widget("heading", AlignedSettings)>>)>>)>>) }

\* the options with removeMargins switched off
KeepMarginOptions == {[o EXCEPT !.removeMargins = FALSE] : o \in HierarchyOptions}

Cases ==
  (PropertyDocs \X OptionSet) \cup (HierarchyDocs \X HierarchyOptions)
  \cup (MarginDocs \X KeepMarginOptions)
  \cup (WidgetDocs \X HierarchyOptions)

-----------------------------------------------------------------------------
(* The state machine: one document is compressed once *)

NoResult == [cleaned |-> Undefined, removedCount |-> 0, threw |-> FALSE, ref |-> ScalarRef]
NoTrace == [visits |-> <<>>, lists |-> <<>>, written |-> {}, shared |-> {}]

Init ==
  /\ \E c \in Cases : input = c[1] /\ options = c[2]
  /\ input0 = input
  /\ pc = "ready"
  /\ result = NoResult
  /\ trace = NoTrace
  /\ calls = <<>>
  /\ AppMounted

\* what the caller of one call gets, with the tree and the options it passed
Returns(r) ==
  [tree |-> input0, options |-> options,
   cleaned |-> IF r.threw THEN Undefined ELSE r.cleaned,
   removedCount |-> IF r.threw THEN 0 ELSE r.removedCount,
   threw |-> r.threw, found |-> r.st.found]

\* the state after the call returned or threw r
Settle(r) ==
  /\ input' = r.st.heap
  /\ result' = IF r.threw
                 THEN [NoResult EXCEPT !.threw = TRUE]
                 ELSE [cleaned |-> r.cleaned, removedCount |-> r.removedCount,
                       threw |-> FALSE, ref |-> r.ref]
  /\ trace' = [visits |-> r.st.visits, lists |-> r.st.lists,
               written |-> r.st.written, shared |-> r.st.shared]
  /\ calls' = Append(calls, Returns(r))

\* const { cleaned, removedCount } = compressElementorJSON(parsed, options)
Compress ==
  /\ pc = "ready"
  /\ Settle(compressElementorJSON(input, options))
  /\ pc' = "done"
  /\ UNCHANGED <<input0, options, appVars>>

Next == Compress

Spec == Init /\ [][Next]_vars

-----------------------------------------------------------------------------
(* The state machine of a caller that compresses one document after another *)

MaxCalls == 3

PlainOptions ==
  [rtlize |-> FALSE, removeMotionFX |-> FALSE, autoRename |-> FALSE,
   removeMargins |-> TRUE, applyMotherPadding |-> FALSE, motherPadding |-> DevicePadding,
   applyLevel2Padding |-> FALSE, level2Padding |-> DevicePadding]

MirrorOptions == [PlainOptions EXCEPT !.rtlize = TRUE]

\* a page with two containers and removals, a page of widgets only, and a
\* container whose title is a number and that holds a null
CallDocs ==
  { List(<<Null, Container(<<Pair("isInner", Bool(TRUE))>>, RowSettings, <<MidNode>>),
           Placeholder, Container(<<>>, RowSettings, <<>>)>>),
    List(<<Widget("text-editor",
                  Map(<<Pair("typography", Placeholder), Pair("extra", Null)>>))>>),
    Container(<<>>, <<Pair("settings", Map(<<Pair("_title", Num(7))>>))>>, <<Null>>) }

CallCases == CallDocs \X {PlainOptions, MirrorOptions}

InitCalls ==
  /\ \E c \in CallCases : input = c[1] /\ options = c[2]
  /\ input0 = input
  /\ pc = "ready"
  /\ result = NoResult
  /\ trace = NoTrace
  /\ calls = <<>>
  /\ AppMounted

\* the caller passes the next tree, or the tree it passed before, to a new call
Load ==
  /\ pc = "done"
  /\ Len(calls) < MaxCalls
  /\ \E c \in CallCases \cup {<<input, options>>} :
        input' = c[1] /\ input0' = c[1] /\ options' = c[2]
  /\ pc' = "ready"
  /\ result' = NoResult
  /\ trace' = NoTrace
  /\ UNCHANGED <<calls, appVars>>

NextCalls == Compress \/ Load

SpecCalls == InitCalls /\ [][NextCalls]_vars

-----------------------------------------------------------------------------
(* Properties *)

Returned == pc = "done" /\ ~result.threw

VisitSet == {trace.visits[i] : i \in 1..Len(trace.visits)}
ListSet == {trace.lists[i] : i \in 1..Len(trace.lists)}

\* pairs of the visited map that the loop did not assign to the cleaned map
DroppedPairs(v) == Len(v.in.m) - Len(v.loop.m)

\* elements that the filter of the array branch left out
DroppedItems(e) == e.inLen - e.outLen

RECURSIVE SumDroppedPairs(_, _)
SumDroppedPairs(visits, i) ==
  IF i > Len(visits) THEN 0 ELSE DroppedPairs(visits[i]) + SumDroppedPairs(visits, i + 1)

RECURSIVE SumDroppedItems(_, _)
SumDroppedItems(lists, i) ==
  IF i > Len(lists) THEN 0 ELSE DroppedItems(lists[i]) + SumDroppedItems(lists, i + 1)

\* C1: the removedCount of a call that returns equals the number of drop events
\* of the pass: the pairs of visited maps that were not assigned to the cleaned
\* map, plus the list elements that the null filter left out.
C1_RemovedCountIsDropEvents ==
  Returned =>
    result.removedCount = SumDroppedPairs(trace.visits, 1) + SumDroppedItems(trace.lists, 1)

\* a call that both filtered a list element and dropped pairs, one of them by
\* the pruning after recursion
C1_Witness ==
  /\ Returned
  /\ \E e \in ListSet : DroppedItems(e) > 0
  /\ \E v \in VisitSet :
       /\ DroppedPairs(v) > 0
       /\ \E i \in 1..Len(v.in.m) :
            /\ ~isRedundantElementorObject(v.in.m[i][2])
            /\ v.in.m[i][1] \notin Keys(v.loop)
            /\ ~IsCustomWidthKey(v.in.m[i][1])
            /\ ~IsMotionKey(options, v.in.m[i][1])
            /\ ~IsMirrorArtifactKey(options, v.in.m[i][1])

ContainerVisits == {v \in VisitSet : v.isContainer}

\* the path of the list or map that holds the node at `path`
ParentPath(path) == SubSeq(path, 1, Len(path) - 1)

\* C2: in one call exactly the first container met by the traversal (maps are
\* entered in pre-order: keys in insertion order, list items in order) is
\* classified as the root section, at level 1; every other container met is not,
\* and is given a level of 2 or more.
C2_FirstContainerIsRoot ==
  Returned =>
    \A v \in ContainerVisits :
      /\ v.mother <=> (\A w \in ContainerVisits : v.ord <= w.ord)
      /\ v.mother <=> v.level = 1
      /\ v.level >= 1

\* two sibling containers of one top-level list, the second of them marked
\* isInner = false in the input: the first is the root, the second a level-2
\* container
C2_Witness ==
  /\ Returned
  /\ \E v, w \in ContainerVisits :
       /\ Len(v.path) = 2 /\ v.path = <<"elements", "1">>
       /\ w.path = <<"elements", "2">>
       /\ Get(w.in, "isInner") = Bool(FALSE)
       /\ v.mother /\ ~w.mother /\ w.level = 2
       /\ Get(w.out, "isInner") = Bool(TRUE)

\* the maps of a tree, at any depth
RECURSIVE MapsOf(_)
MapsOf(tree) ==
  IF IsMap(tree)
    THEN {tree} \cup UNION {MapsOf(tree.m[i][2]) : i \in 1..Len(tree.m)}
  ELSE IF IsList(tree)
    THEN UNION {MapsOf(tree.l[i]) : i \in 1..Len(tree.l)}
  ELSE {}

\* equality of decoded trees: maps are compared as unordered key-value maps
RECURSIVE SameTree(_, _)
SameTree(a, b) ==
  IF IsMap(a) /\ IsMap(b)
    THEN /\ Len(a.m) = Len(b.m)
         /\ Keys(a) = Keys(b)
         /\ \A k \in Keys(a) : SameTree(Get(a, k), Get(b, k))
  ELSE IF IsList(a) /\ IsList(b)
    THEN /\ Len(a.l) = Len(b.l)
         /\ \A i \in 1..Len(a.l) : SameTree(a.l[i], b.l[i])
  ELSE a = b

\* the tree with the isInner pair of every container taken out
RECURSIVE StripIsInner(_)
StripIsInner(tree) ==
  IF IsMap(tree)
    THEN LET kept == IF IsContainerNode(tree) THEN Delete(tree, "isInner") ELSE tree
         IN Map([i \in 1..Len(kept.m) |-> <<kept.m[i][1], StripIsInner(kept.m[i][2])>>])
  ELSE IF IsList(tree)
    THEN List([i \in 1..Len(tree.l) |-> StripIsInner(tree.l[i])])
  ELSE tree

\* C3: every container of the output carries a boolean isInner, which is false
\* exactly for the container classified as the root section, whatever isInner
\* was in the input; the output tree is the one obtained from the same input
\* with every container's isInner pair removed.
C3_IsInnerFollowsClassification ==
  Returned =>
    /\ \A v \in ContainerVisits : Get(v.out, "isInner") = Bool(~v.mother)
    /\ \A c \in MapsOf(result.cleaned) :
         IsContainerNode(c) => IsBool(Get(c, "isInner"))
    /\ LET other == compressElementorJSON(StripIsInner(input0), options)
       IN ~other.threw /\ SameTree(result.cleaned, other.cleaned)

\* a root whose input said isInner = true next to a sibling whose input said
\* isInner = false
C3_Witness ==
  /\ Returned
  /\ \E v, w \in ContainerVisits :
       /\ v.mother /\ Get(v.in, "isInner") = Bool(TRUE) /\ Get(v.out, "isInner") = Bool(FALSE)
       /\ ~w.mother /\ Get(w.in, "isInner") = Bool(FALSE) /\ Get(w.out, "isInner") = Bool(TRUE)
  /\ \E v \in ContainerVisits : ~Has(v.in, "isInner")

\* a map with size = "" and sizes = []
IsPlaceholderMap(x) ==
  /\ IsMap(x)
  /\ Get(x, "size") = Str("")
  /\ Get(x, "sizes") = List(<<>>)

\* C4 as stated: no map with size = "" and sizes = [] appears anywhere in the
\* output, whether it was the value of a key, a list element or the top-level value.
C4_NoPlaceholderInOutput ==
  Returned => \A x \in MapsOf(result.cleaned) : ~IsPlaceholderMap(x)

\* C4 amended: a map with size = "" and sizes = [] that is, in the input, the
\* value of a key of a visited map is not output under that key; the loop
\* assigns nothing for that key unless the key is _element_width.
C4_PlaceholderValueRemoved ==
  Returned =>
    \A v \in VisitSet : \A i \in 1..Len(v.in.m) :
      IsPlaceholderMap(v.in.m[i][2]) =>
        /\ ~IsPlaceholderMap(Get(v.out, v.in.m[i][1]))
        /\ v.in.m[i][1] # "_element_width" => v.in.m[i][1] \notin Keys(v.loop)

\* a placeholder under an ordinary key of a visited settings map was dropped
C4_Witness ==
  /\ Returned
  /\ \E v \in VisitSet :
       /\ IsPlaceholderMap(Get(v.in, "typography"))
       /\ ~Has(v.out, "typography")
       /\ Len(v.out.m) > 0

IsEmptyValue(x) == x = EmptyMap \/ x = List(<<>>)

\* C5: a settings or elements pair is never dropped for being empty: when its
\* input value is {} or [], or its cleaned value is empty, the key is present in
\* the cleaned map; any other key that holds {} in the input, or whose cleaned
\* value is {}, is dropped.
C5_EmptySettingsAndElementsKept ==
  Returned =>
    \A v \in VisitSet : \A i \in 1..Len(v.in.m) :
      LET k == v.in.m[i][1]
          x == v.in.m[i][2]
      IN /\ (k \in {"settings", "elements"} /\ IsEmptyValue(x)) => Has(v.out, k)
         /\ (k \notin {"settings", "elements", "isInner", "_element_width"} /\ x = EmptyMap)
              => ~Has(v.out, k)

\* C6: whenever the root section has a settings map in the input, its output
\* settings has content_width = "full" and width = {unit: "%", size: 100,
\* sizes: []}, and with mirrorDirection its flex_direction is "row-reverse".
C6_RootSettingsForced ==
  Returned =>
    \A v \in ContainerVisits :
      (v.mother /\ IsMap(Get(v.in, "settings"))) =>
        LET s == Get(v.out, "settings")
        IN /\ IsMap(s)
           /\ Get(s, "content_width") = Str("full")
           /\ Get(s, "width") = FullWidth
           /\ options.rtlize => Get(s, "flex_direction") = Str("row-reverse")

CustomWidthKeys(obj) == {k \in Keys(obj) : IsCustomWidthKey(k)}

RECURSIVE SumCustomWidthKeys(_, _)
SumCustomWidthKeys(visits, i) ==
  IF i > Len(visits) THEN 0
  ELSE Cardinality(CustomWidthKeys(visits[i].in)) + SumCustomWidthKeys(visits, i + 1)

\* the only pairs the loop did not keep are custom-width pairs
OnlyCustomWidthDropped ==
  /\ \A v \in VisitSet : Keys(v.in) \ Keys(v.loop) = CustomWidthKeys(v.in)
  /\ \A e \in ListSet : DroppedItems(e) = 0

\* C7: a visited map that directly holds _element_custom_width or
\* _element_custom_width_tablet is output without these keys and with
\* _flex_align_self = "flex-start", whatever _flex_align_self it had; a map that
\* holds neither keeps the _flex_align_self it had, or none; no custom-width key
\* is left anywhere in the output, and each one removed counts once.
C7_CustomWidthBecomesFlexStart ==
  Returned =>
    /\ \A v \in VisitSet :
         IF CustomWidthKeys(v.in) # {}
           THEN /\ CustomWidthKeys(v.out) = {}
                /\ Get(v.out, "_flex_align_self") = Str("flex-start")
           ELSE /\ Has(v.out, "_flex_align_self") => Has(v.in, "_flex_align_self")
                /\ IsStr(Get(v.in, "_flex_align_self"))
                     => Get(v.out, "_flex_align_self") = Get(v.in, "_flex_align_self")
    /\ \A x \in MapsOf(result.cleaned) : CustomWidthKeys(x) = {}
    /\ OnlyCustomWidthDropped =>
         result.removedCount = SumCustomWidthKeys(trace.visits, 1)

\* a settings map with both custom-width keys and _flex_align_self = "center":
\* the map gets flex-start, the node that owns it does not, two removals
C7_Witness ==
  /\ Returned
  /\ OnlyCustomWidthDropped
  /\ result.removedCount >= 2
  /\ \E v, w \in VisitSet :
       /\ CustomWidthKeys(v.in) = {"_element_custom_width", "_element_custom_width_tablet"}
       /\ Get(v.in, "_flex_align_self") = Str("center")
       /\ Get(v.out, "_flex_align_self") = Str("flex-start")
       /\ w.path = ParentPath(v.path)
       /\ ~Has(w.out, "_flex_align_self")

\* C8: with mirrorDirection, a pair flex_direction: "row" directly in the
\* settings map of a non-container node is output as "row-reverse" and any other
\* string value is output unchanged; without mirrorDirection no value changes.
C8_WidgetFlexDirectionMirrored ==
  Returned =>
    \A v, w \in VisitSet :
      (/\ v.path = Append(w.path, "settings")
       /\ ~w.isContainer
       /\ IsStr(Get(v.in, "flex_direction"))) =>
        Get(v.out, "flex_direction") =
          IF options.rtlize /\ Get(v.in, "flex_direction") = Str("row")
            THEN Str("row-reverse")
            ELSE Get(v.in, "flex_direction")

C10_InputNotMutated ==
  pc = "done" =>
    /\ input = input0
    /\ trace.written = {}
    /\ trace.shared = {}
    /\ ~IsInputRef(result.ref)

\* the container rules deleted a margin from, and forced values into, the
\* cleaned settings of the root, while the caller's settings still has the margin
C10_Witness ==
  /\ Returned
  /\ \E v \in ContainerVisits :
       /\ v.mother
       /\ IsMap(Get(v.in, "settings"))
       /\ Has(Get(v.in, "settings"), "margin")
       /\ IsMap(Get(v.out, "settings"))
       /\ ~Has(Get(v.out, "settings"), "margin")
       /\ Get(Get(v.out, "settings"), "content_width") = Str("full")
       /\ \E x \in MapsOf(input) : x = v.in
  /\ \E e \in ListSet : e.inLen = 0

-----------------------------------------------------------------------------
-----------------------------------------------------------------------------
\* C12: the call never raises: whatever decoded tree and options it is given,
\* it ends by returning a cleaned tree and a removedCount.
C12_NeverRaises == pc = "done" => ~result.threw

-----------------------------------------------------------------------------
MaxOver(S) == IF S = {} THEN 0 ELSE CHOOSE d \in S : \A e \in S : e <= d

\* the number of nested calls of clean that a value causes: one for a scalar,
\* and one more than its deepest element or key value for a list or a map
RECURSIVE RecursionDepth(_)
RecursionDepth(val) ==
  IF IsList(val) THEN 1 + MaxOver({RecursionDepth(val.l[i]) : i \in 1..Len(val.l)})
  ELSE IF IsMap(val) THEN 1 + MaxOver({RecursionDepth(val.m[i][2]) : i \in 1..Len(val.m)})
  ELSE 1

\* the recursion depth of the deepest document
DeepestInput == MaxOver({RecursionDepth(c[1]) : c \in Cases})

\* C13: the recursion depth is bounded by a maximum, and a call on a tree
\* nested deeper than the maximum ends with an error instead of a result.
\* Stated for every maximum below the depth of the deepest document: the call
\* on a document of that depth does not return a result.
C13_DeepTreeAborts ==
  (pc = "done" /\ RecursionDepth(input0) = DeepestInput) => result.threw

-----------------------------------------------------------------------------
\* the tree with the value of every key _element_width replaced by ""
RECURSIVE Blanked(_)
BlankedPair(pair) ==
  IF pair[1] = "_element_width" THEN <<pair[1], Str("")>> ELSE <<pair[1], Blanked(pair[2])>>

Blanked(val) ==
  IF IsList(val) THEN List([i \in 1..Len(val.l) |-> Blanked(val.l[i])])
  ELSE IF IsMap(val) THEN Map([i \in 1..Len(val.m) |-> BlankedPair(val.m[i])])
  ELSE val

\* the values of the keys _element_width of the maps of a tree
RECURSIVE WidthValues(_)
WidthValues(val) ==
  IF IsList(val) THEN UNION {WidthValues(val.l[i]) : i \in 1..Len(val.l)}
  ELSE IF IsMap(val)
    THEN UNION {(IF val.m[i][1] = "_element_width" THEN {val.m[i][2]} ELSE {})
                \cup WidthValues(val.m[i][2]) : i \in 1..Len(val.m)}
  ELSE {}

\* the call on the same tree with every _element_width value blanked beforehand
BlankedCall == compressElementorJSON(Blanked(input0), options)

\* C14: whatever the options, a key _element_width of a map that the cleaner
\* visits is in the cleaned map with the value "" (it is not dropped), its
\* original value (null, {}, a placeholder, a subtree) is not recursed into,
\* and it adds nothing to removedCount: the call gives the same cleaned tree
\* and the same removedCount as on the tree whose _element_width values were
\* "" from the start.
C14_ElementWidthBlanked ==
  Returned =>
    /\ \A v \in VisitSet :
         Has(v.in, "_element_width")
           => /\ Get(v.loop, "_element_width") = Str("")
              /\ Get(v.out, "_element_width") = Str("")
    /\ \A v \in VisitSet : \A i \in 1..Len(v.path) : v.path[i] # "_element_width"
    /\ \A e \in ListSet : \A i \in 1..Len(e.path) : e.path[i] # "_element_width"
    /\ WidthValues(result.cleaned) \subseteq {Str("")}
    /\ LET again == BlankedCall
       IN /\ again.cleaned = result.cleaned
          /\ again.removedCount = result.removedCount

\* a visited map had _element_width with a subtree as its value, with the
\* options that strip keys switched on
C14_Witness ==
  /\ Returned
  /\ options.rtlize /\ options.removeMotionFX
  /\ \E v \in VisitSet : Get(v.in, "_element_width") = Subtree
  /\ WidthValues(result.cleaned) # {}

-----------------------------------------------------------------------------
IsPathPrefix(p, q) == Len(p) <= Len(q) /\ SubSeq(q, 1, Len(p)) = p

HasMotionPrefix(key) == StartsWith(key, "motion_fx_")

InArtifactSet(key) ==
  \/ key = "uich_custom_css_field"
  \/ \E p \in keysToRemovePrefixes : StartsWith(key, p)

\* the key's prefix is one that an option of opts switches on
DropEnabled(key, opts) ==
  \/ HasMotionPrefix(key) /\ opts.removeMotionFX
  \/ InArtifactSet(key) /\ opts.rtlize

\* the tree with "" as the value of every key whose prefix opts switches on
RECURSIVE Shrunk(_, _)
ShrunkPair(pair, opts) ==
  IF DropEnabled(pair[1], opts) THEN <<pair[1], Str("")>>
  ELSE <<pair[1], Shrunk(pair[2], opts)>>

Shrunk(val, opts) ==
  IF IsList(val) THEN List([i \in 1..Len(val.l) |-> Shrunk(val.l[i], opts)])
  ELSE IF IsMap(val) THEN Map([i \in 1..Len(val.m) |-> ShrunkPair(val.m[i], opts)])
  ELSE val

ShrunkCall == compressElementorJSON(Shrunk(input0, options), options)

\* the pair key: val of the visited map v was dropped by its prefix: it is not
\* in the cleaned map and nothing below it was visited
DroppedUnvisited(v, key) ==
  /\ ~Has(v.loop, key)
  /\ \A w \in VisitSet \cup ListSet : ~IsPathPrefix(v.path \o <<key>>, w.path)

\* the pair key: val of the visited map v was treated like any other pair
TreatedAsOrdinary(v, key, val) ==
  /\ (IsMap(val) /\ ~isRedundantElementorObject(val))
       => \E w \in VisitSet : w.path = v.path \o <<key>>
  /\ IsList(val) => Has(v.loop, key) /\ \E e \in ListSet : e.path = v.path \o <<key>>
  /\ (~IsMap(val) /\ ~IsList(val) /\ ~IsNullish(val)) => Get(v.loop, key) = val

\* C15: a pair is dropped for its key's prefix exactly under the enabling
\* option: a key starting with motion_fx_ when removeMotionFX is set, and
\* uich_custom_css_field or a key starting with one of the eight mirror
\* artifact prefixes when rtlize is set.  With the option set the pair of a
\* visited map is dropped and nothing below it is visited; with the option not
\* set the pair is cleaned like any other.  Each such drop adds one to
\* removedCount whatever the dropped value is: removedCount is the number of
\* drop events, and the call gives the same result as on the tree in which
\* the value of every such pair was "" beforehand.
C15_PrefixDropsFollowOptions ==
  Returned =>
    /\ \A v \in VisitSet : \A i \in 1..Len(v.in.m) :
         (HasMotionPrefix(v.in.m[i][1]) \/ InArtifactSet(v.in.m[i][1]))
           => IF DropEnabled(v.in.m[i][1], options)
                THEN DroppedUnvisited(v, v.in.m[i][1])
                ELSE TreatedAsOrdinary(v, v.in.m[i][1], v.in.m[i][2])
    /\ result.removedCount
         = SumDroppedPairs(trace.visits, 1) + SumDroppedItems(trace.lists, 1)
    /\ LET again == ShrunkCall
       IN /\ again.cleaned = result.cleaned
          /\ again.removedCount = result.removedCount

\* both options were set and a visited map lost a motion_fx_ pair and a sticky
\* pair that each held a subtree
C15_Witness ==
  /\ Returned
  /\ options.removeMotionFX /\ options.rtlize
  /\ \E v \in VisitSet :
       /\ Get(v.in, "motion_fx_translateY") = Subtree
       /\ Get(v.in, "sticky_parent") = Subtree
       /\ ~Has(v.loop, "motion_fx_translateY") /\ ~Has(v.loop, "sticky_parent")
       /\ Has(v.loop, "color")
  /\ result.removedCount >= 2

-----------------------------------------------------------------------------
\* the container of visit v is an element of the elements list of the root
InsideRoot(v) ==
  \E m \in ContainerVisits :
    /\ m.mother
    /\ Len(v.path) = Len(m.path) + 2
    /\ IsPathPrefix(m.path \o <<"elements">>, v.path)

WidthKeys == {"width", "width_tablet", "width_mobile"}

\* flex_direction after mirroring: row is reversed, anything else is kept
MirroredDirection(settings) ==
  IF Get(settings, "flex_direction") = Str("row") THEN Str("row-reverse")
  ELSE Get(settings, "flex_direction")

\* C16: a container directly inside the root is at level 2, and the settings
\* map that a container of level 2 is output with has content_width "boxed"
\* and none of width, width_tablet, width_mobile; with rtlize it also has
\* flex_size "none", and its flex_direction is "row-reverse" where the input
\* had "row" and is the input's value (or absent) otherwise.
C16_LevelTwoSettings ==
  Returned =>
    \A v \in ContainerVisits :
      /\ InsideRoot(v) => v.level = 2
      /\ (v.level = 2 /\ IsMap(Get(v.out, "settings"))) =>
           /\ Get(Get(v.out, "settings"), "content_width") = Str("boxed")
           /\ Keys(Get(v.out, "settings")) \cap WidthKeys = {}
           /\ options.rtlize =>
                /\ Get(Get(v.out, "settings"), "flex_size") = Str("none")
                /\ Get(Get(v.out, "settings"), "flex_direction")
                     = MirroredDirection(Get(v.in, "settings"))

\* with rtlize, a container inside the root had a width_tablet and a
\* flex_direction other than row in its settings
C16_Witness ==
  /\ Returned
  /\ options.rtlize
  /\ \E v \in ContainerVisits :
       /\ InsideRoot(v)
       /\ Has(Get(v.in, "settings"), "width_tablet")
       /\ Get(Get(v.in, "settings"), "flex_direction") = Str("column")
       /\ Get(Get(v.out, "settings"), "flex_direction") = Str("column")

-----------------------------------------------------------------------------
\* C17: the settings map that a container of level 3 or deeper is output with
\* has content_width "full" and width, width_tablet and width_mobile each
\* equal to {unit: "%", size: 100, sizes: []}; with rtlize its flex_direction
\* is "row-reverse" where the input had "row".
C17_LevelThreeSettings ==
  Returned =>
    \A v \in ContainerVisits :
      (v.level >= 3 /\ IsMap(Get(v.out, "settings"))) =>
        /\ Get(Get(v.out, "settings"), "content_width") = Str("full")
        /\ \A k \in WidthKeys : Get(Get(v.out, "settings"), k) = FullWidth
        /\ (options.rtlize /\ Get(Get(v.in, "settings"), "flex_direction") = Str("row"))
             => Get(Get(v.out, "settings"), "flex_direction") = Str("row-reverse")

-----------------------------------------------------------------------------
MarginKeys == {"margin", "margin_tablet", "margin_mobile"}


\* C18: the margins of a container's settings follow removeMargins: when it is
\* set, the settings that a container is output with has none of margin,
\* margin_tablet, margin_mobile; when it is not set, each of the three keys is
\* output with its cleaned input value (and is absent when it was absent).
C18_MarginsFollowOption ==
  Returned =>
    \A v \in ContainerVisits : \A w \in VisitSet :
      (w.path = v.path \o <<"settings">> /\ IsMap(Get(v.out, "settings"))) =>
        IF options.removeMargins
          THEN Keys(Get(v.out, "settings")) \cap MarginKeys = {}
          ELSE \A k \in MarginKeys : Get(Get(v.out, "settings"), k) = Get(w.out, k)

-----------------------------------------------------------------------------
PaddingKeys == {"padding", "padding_tablet", "padding_mobile"}

\* the side of the padding entry p as the output has to show it
ExpectedSide(p, side) ==
  IF side \notin DOMAIN p THEN Str("0")
  ELSE IF p[side] = "" THEN Str("0")
  ELSE Str(p[side])

ExpectedPadding(p) ==
  Map(<< <<"unit", Str("px")>>, <<"isLinked", Bool(FALSE)>>,
         <<"top", ExpectedSide(p, "top")>>, <<"right", ExpectedSide(p, "right")>>,
         <<"bottom", ExpectedSide(p, "bottom")>>, <<"left", ExpectedSide(p, "left")>> >>)

\* C19: with applyMotherPadding set, the settings that the root section is
\* output with has padding, padding_tablet and padding_mobile equal to
\* {unit: "px", isLinked: false, top, right, bottom, left} built from the
\* desktop, tablet and mobile entries of motherPadding, each side being the
\* configured string, or "0" when it is empty or absent; with the option not
\* set, each of the three keys is output with its cleaned input value (and is
\* absent when it was absent or removed by the cleaning).
C19_RootPadding ==
  Returned =>
    \A v \in ContainerVisits : \A w \in VisitSet :
      (v.mother /\ w.path = v.path \o <<"settings">> /\ IsMap(Get(v.out, "settings"))) =>
        IF options.applyMotherPadding
          THEN /\ Get(Get(v.out, "settings"), "padding")
                    = ExpectedPadding(options.motherPadding.desktop)
               /\ Get(Get(v.out, "settings"), "padding_tablet")
                    = ExpectedPadding(options.motherPadding.tablet)
               /\ Get(Get(v.out, "settings"), "padding_mobile")
                    = ExpectedPadding(options.motherPadding.mobile)
          ELSE \A k \in PaddingKeys : Get(Get(v.out, "settings"), k) = Get(w.out, k)

\* the option is set, the root had a padding of its own, and the configured
\* padding has an empty side and an absent side
C19_Witness ==
  /\ Returned
  /\ options.applyMotherPadding
  /\ options.motherPadding.desktop.right = ""
  /\ "left" \notin DOMAIN options.motherPadding.mobile
  /\ \E v \in ContainerVisits :
       /\ v.mother
       /\ Get(Get(v.in, "settings"), "padding") = Box
       /\ Get(Get(Get(v.out, "settings"), "padding"), "right") = Str("0")
       /\ Get(Get(Get(v.out, "settings"), "padding_mobile"), "left") = Str("0")
       /\ Get(Get(Get(v.out, "settings"), "padding_mobile"), "right") = Str("7")

-----------------------------------------------------------------------------
\* the id has the form of a derived id: no upper-case letter, no whitespace,
\* '-' or '/', no '_' at either end, and deriving an id from it returns it
IsDerivedId(id) ==
  /\ \A i \in 1..Len(id) :
       LowerChar(SubSeq(id, i, i)) = SubSeq(id, i, i) /\ ~IsSepChar(SubSeq(id, i, i))
  /\ id # "" => SubSeq(id, 1, 1) # "_" /\ SubSeq(id, Len(id), Len(id)) # "_"
  /\ sanitizeToId(id) = id

\* C20: with rtlize on and autoRename off, the _element_id that the root
\* section is output with is the one of its input settings when there is one;
\* otherwise, when the settings has a _title, it is the id derived from the
\* title (lower-cased, every run of whitespace, '-' or '/' replaced by one
\* '_', leading and trailing '_' removed; deriving again changes nothing);
\* otherwise there is none.
C20_RootIdFromTitle ==
  (Returned /\ options.rtlize /\ ~options.autoRename) =>
    \A v \in ContainerVisits : \A w \in VisitSet :
      (v.mother /\ w.path = v.path \o <<"settings">> /\ IsMap(Get(v.out, "settings"))) =>
        IF Has(w.out, "_element_id")
          THEN Get(Get(v.out, "settings"), "_element_id") = Get(w.out, "_element_id")
        ELSE IF IsStr(Get(w.out, "_title")) /\ Get(w.out, "_title") # Str("")
          THEN /\ Get(Get(v.out, "settings"), "_element_id")
                    = Str(sanitizeToId(Get(w.out, "_title").s))
               /\ IsDerivedId(Get(Get(v.out, "settings"), "_element_id").s)
        ELSE ~Has(Get(v.out, "settings"), "_element_id")

-----------------------------------------------------------------------------
\* the visited map is a widget of the kind that has a settings map in the input
WidgetWithSettings(v, kind) ==
  Get(v.in, "widgetType") = Str(kind) /\ IsMap(Get(v.in, "settings"))

\* the value of key in the settings that the visited node is output with
OutSetting(v, key) == Get(Get(v.out, "settings"), key)

\* the value of a scalar key of the input settings of the visited node
InSetting(v, key) == Get(Get(v.in, "settings"), key)

\* C21: with rtlize, every text-editor widget that has a settings map in the
\* input is output with settings.align = "start" and every icon-box widget
\* that has one with settings.text_align = "start", whatever the input value
\* and the depth of the widget; without rtlize align and text_align of such a
\* widget are output as they are in the input.
C21_WidgetAlignForcedToStart ==
  Returned =>
    \A v \in VisitSet :
      /\ WidgetWithSettings(v, "text-editor") =>
           OutSetting(v, "align") = IF options.rtlize THEN Str("start")
                                    ELSE InSetting(v, "align")
      /\ WidgetWithSettings(v, "icon-box") =>
           OutSetting(v, "text_align") = IF options.rtlize THEN Str("start")
                                         ELSE InSetting(v, "text_align")

-----------------------------------------------------------------------------
\* the indices of the elements of a list that are not null or undefined
KeptIndices(items) ==
  SelectSeq([i \in 1..Len(items) |-> i], LAMBDA i : ~IsNullish(items[i]))

\* the output element out is the cleaned form of the i-th element of the
\* visited list e: what the visit of that map or list returned, or the scalar
IsCleanedItem(e, i, out) ==
  IF IsMap(e.in[i])
    THEN \E w \in VisitSet : w.path = Append(e.path, ToString(i)) /\ w.out = out
  ELSE IF IsList(e.in[i])
    THEN \E f \in ListSet : f.path = Append(e.path, ToString(i)) /\ List(f.out) = out
  ELSE out = e.in[i]

\* the visited list e is the value of a key of a visited map, and the loop
\* assigned its output list to that key
StoredUnderItsKey(e) ==
  \A v \in VisitSet :
    (/\ Len(e.path) > 0
     /\ v.path = ParentPath(e.path)
     /\ ~(v.isContainer /\ e.path[Len(e.path)] = "isInner"))
      => Get(v.loop, e.path[Len(e.path)]) = List(e.out)

\* C22: the output of every list that the cleaner visits is the sequence of
\* the cleaned forms of its elements, in their order, with exactly the null
\* and undefined elements left out; each element left out adds one to
\* removedCount (which is the number of drop events); and the list is output
\* under its key also when it is or becomes empty.
C22_ListsKeepOrderAndDropNulls ==
  Returned =>
    /\ \A e \in ListSet :
         /\ Len(e.out) = Len(KeptIndices(e.in))
         /\ \A k \in 1..Len(e.out) : IsCleanedItem(e, KeptIndices(e.in)[k], e.out[k])
         /\ DroppedItems(e) = Len(e.in) - Len(KeptIndices(e.in))
         /\ StoredUnderItsKey(e)
    /\ result.removedCount
         = SumDroppedItems(trace.lists, 1) + SumDroppedPairs(trace.visits, 1)

\* a list under a key lost a null between two elements and kept a list that
\* became empty and an empty map
C22_Witness ==
  /\ Returned
  /\ \E e, f \in ListSet :
       /\ Len(e.path) > 0 /\ e.path[Len(e.path)] = "grid"
       /\ Len(e.in) = 4 /\ Len(e.out) = 3
       /\ e.out[1] = List(<<>>) /\ e.out[2] = EmptyMap
       /\ f.path = Append(e.path, "4")
       /\ f.out = <<Str("a"), Str("b")>>
  /\ result.removedCount >= 3

-----------------------------------------------------------------------------
\* the call on the cleaned tree that the call returned, with the same options
SecondCall == compressElementorJSON(result.cleaned, options)

\* no key of a map of the tree holds a value that the redundancy test matches
RECURSIVE NoRedundantPair(_)
NoRedundantPair(val) ==
  IF IsList(val) THEN \A i \in 1..Len(val.l) : NoRedundantPair(val.l[i])
  ELSE IF IsMap(val)
    THEN \A i \in 1..Len(val.m) :
           ~isRedundantElementorObject(val.m[i][2]) /\ NoRedundantPair(val.m[i][2])
  ELSE TRUE

\* C23 as stated: compressing the cleaned tree again with the same options
\* returns the same tree and removedCount = 0.
C23_Idempotent ==
  Returned =>
    LET again == SecondCall
    IN /\ ~again.threw
       /\ again.cleaned = result.cleaned
       /\ again.removedCount = 0

\* C23 as it holds: the second call returns the same tree and removedCount = 0
\* when no key of the cleaned tree holds an empty map or a placeholder; such a
\* pair (a settings map that became empty, a map that became a placeholder
\* during the cleaning) is what the second call drops.
C23_IdempotentWithoutRedundantPairs ==
  Returned =>
    LET again == SecondCall
    IN /\ ~again.threw
       /\ NoRedundantPair(result.cleaned) =>
            /\ again.cleaned = result.cleaned
            /\ again.removedCount = 0
       /\ ~NoRedundantPair(result.cleaned) => again.removedCount > 0

\* a call with rtlize that removed pairs, rewrote a container of level 2 and
\* left no redundant pair
C23_Witness ==
  /\ Returned
  /\ options.rtlize
  /\ result.removedCount > 0
  /\ NoRedundantPair(result.cleaned)
  /\ \E v \in ContainerVisits :
       v.level = 2 /\ InSetting(v, "flex_direction") = Str("row")

-----------------------------------------------------------------------------
\* no key of the tree holds null or undefined, no list of it has a null or
\* undefined element, and an empty map is held only by settings or elements
RECURSIVE IsPruned(_)
IsPrunedPair(pair) ==
  /\ ~IsNullish(pair[2])
  /\ (IsMap(pair[2]) /\ Len(pair[2].m) = 0) => pair[1] \in {"settings", "elements"}
  /\ IsPruned(pair[2])

IsPruned(val) ==
  IF IsList(val) THEN \A i \in 1..Len(val.l) : ~IsNullish(val.l[i]) /\ IsPruned(val.l[i])
  ELSE IF IsMap(val) THEN \A i \in 1..Len(val.m) : IsPrunedPair(val.m[i])
  ELSE TRUE

\* C24: in the cleaned tree of every call on a non-null input no map has a key
\* whose value is null or undefined, no list has a null or undefined element,
\* and no key other than settings or elements holds an empty map.
C24_OutputIsPruned ==
  (Returned /\ ~IsNullish(input0)) => IsPruned(result.cleaned)

\* a visited map lost a null and a map that became empty during the cleaning
C24_Witness ==
  /\ Returned
  /\ \E v \in VisitSet :
       /\ Get(v.in, "extra") = Null
       /\ Get(v.in, "nested") = Map(<<Pair("inner", EmptyMap)>>)
       /\ Keys(v.out) \cap {"extra", "nested"} = {}
       /\ Has(v.out, "items")

-----------------------------------------------------------------------------
\* the tree with every value that the filter rules drop unvisited made as
\* small as it can be: "" under a key dropped for its name, {} for a value
\* that the redundancy test matches
RECURSIVE Hollowed(_, _)
HollowedPair(pair, opts) ==
  IF pair[1] = "_element_width" THEN pair
  ELSE IF DropEnabled(pair[1], opts) \/ IsCustomWidthKey(pair[1]) THEN <<pair[1], Str("")>>
  ELSE IF isRedundantElementorObject(pair[2]) THEN <<pair[1], EmptyMap>>
  ELSE <<pair[1], Hollowed(pair[2], opts)>>

Hollowed(val, opts) ==
  IF IsList(val) THEN List([i \in 1..Len(val.l) |-> Hollowed(val.l[i], opts)])
  ELSE IF IsMap(val) THEN Map([i \in 1..Len(val.m) |-> HollowedPair(val.m[i], opts)])
  ELSE val

HollowedCall == compressElementorJSON(Hollowed(input0, options), options)

\* the keys that the container rules took out of the cleaned settings of the
\* container of visit v, whose settings map was returned by visit w
DeletedByRules(v, w) == Keys(w.out) \ Keys(Get(v.out, "settings"))

\* C25: removedCount counts drops, not content.  A pair dropped with a subtree
\* as its value adds one whatever is inside it: the call returns the same
\* removedCount (and tree) as on the tree in which every value that is dropped
\* unvisited was made as small as possible beforehand.  The keys that the
\* container rules delete from cleaned settings (margin, margin_tablet,
\* margin_mobile, width, width_tablet, width_mobile) had passed the loop and
\* add nothing: removedCount is the number of pairs that the loops did not
\* assign plus the list elements filtered out.
C25_CountsDropsNotContent ==
  Returned =>
    /\ LET again == HollowedCall
       IN /\ again.removedCount = result.removedCount
          /\ again.cleaned = result.cleaned
    /\ \A v \in ContainerVisits : \A w \in VisitSet :
         (w.path = v.path \o <<"settings">> /\ IsMap(Get(v.out, "settings"))) =>
           /\ DeletedByRules(v, w) \subseteq MarginKeys \cup WidthKeys
           /\ DeletedByRules(v, w) \subseteq Keys(w.loop)
    /\ result.removedCount
         = SumDroppedItems(trace.lists, 1) + SumDroppedPairs(trace.visits, 1)

\* removedCount is smaller than the number of input pairs absent from the
\* output: a pair with a subtree of three pairs was dropped and counted once,
\* and a margin and a width were deleted by the rules without being counted
C25_Witness ==
  /\ Returned
  /\ \E v \in ContainerVisits : \E w \in VisitSet :
       /\ v.mother
       /\ w.path = v.path \o <<"settings">>
       /\ Get(w.in, "sticky_parent") = Subtree
       /\ ~Has(w.loop, "sticky_parent")
       /\ DroppedPairs(w) = 1
       /\ "margin" \in DeletedByRules(v, w)
  /\ result.removedCount = 2


-----------------------------------------------------------------------------
(* JSON text: JSON.parse and JSON.stringify on the texts of the editor.     *)
(* The grammar is the part of JSON the texts of the model use: whitespace,  *)
(* null, true, false, unsigned integers, strings without escapes, arrays    *)
(* and objects.                                                             *)

Digits == "0123456789"

\* the character of text t at position i, or "" past its end
CharAt(t, i) == IF i >= 1 /\ i <= Len(t) THEN SubSeq(t, i, i) ELSE ""

IsWhitespace(c) == c \in {" ", "\n", "\t", "\r"}

IsDigit(c) == \E d \in 1..Len(Digits) : SubSeq(Digits, d, d) = c

DigitValue(c) == (CHOOSE d \in 1..Len(Digits) : SubSeq(Digits, d, d) = c) - 1

\* the first position at or after i that holds no whitespace
RECURSIVE SkipWhitespace(_, _)
SkipWhitespace(t, i) ==
  IF IsWhitespace(CharAt(t, i)) THEN SkipWhitespace(t, i + 1) ELSE i

\* String.prototype.trim() leaves nothing
IsBlank(t) == SkipWhitespace(t, 1) > Len(t)

\* the position of the quote that closes a string whose content starts at i
RECURSIVE ClosingQuote(_, _)
ClosingQuote(t, i) ==
  IF i > Len(t) \/ CharAt(t, i) = "\"" THEN i ELSE ClosingQuote(t, i + 1)

\* the first position at or after i that holds no digit
RECURSIVE DigitsEnd(_, _)
DigitsEnd(t, i) == IF IsDigit(CharAt(t, i)) THEN DigitsEnd(t, i + 1) ELSE i

\* the number written by the digits of t from i to j
RECURSIVE DigitsValue(_, _, _)
DigitsValue(t, i, j) ==
  IF j < i THEN 0 ELSE DigitsValue(t, i, j - 1) * 10 + DigitValue(CharAt(t, j))

SyntaxError == [ok |-> FALSE, val |-> Undefined, next |-> 0]
Parsed(v, next) == [ok |-> TRUE, val |-> v, next |-> next]

StartsAt(t, i, word) ==
  i + Len(word) - 1 <= Len(t) /\ SubSeq(t, i, i + Len(word) - 1) = word

ParseString(t, i) ==
  LET q == ClosingQuote(t, i + 1)
  IN IF q > Len(t) THEN SyntaxError ELSE Parsed(SubSeq(t, i + 1, q - 1), q + 1)

RECURSIVE ParseValue(_, _)
RECURSIVE ParseElements(_, _, _)
RECURSIVE ParseMembers(_, _, _)

\* the elements of an array from position i on, after the elements in acc
ElementParsed(t, acc, r, k) ==
  IF ~r.ok THEN SyntaxError
  ELSE IF CharAt(t, k) = "," THEN ParseElements(t, SkipWhitespace(t, k + 1), Append(acc, r.val))
  ELSE IF CharAt(t, k) = "]" THEN Parsed(List(Append(acc, r.val)), k + 1)
  ELSE SyntaxError

ParseElements(t, i, acc) ==
  LET r == ParseValue(t, i)
  IN ElementParsed(t, acc, r, SkipWhitespace(t, r.next))

\* a member's value is stored under its key: a repeated key keeps its first
\* position and takes the last value
MemberParsed(t, obj, key, r, k) ==
  IF ~r.ok THEN SyntaxError
  ELSE IF CharAt(t, k) = "," THEN ParseMembers(t, SkipWhitespace(t, k + 1), Put(obj, key, r.val))
  ELSE IF CharAt(t, k) = "}" THEN Parsed(Put(obj, key, r.val), k + 1)
  ELSE SyntaxError

\* the member whose key string is k, the colon expected at position c
MemberAfterKey(t, obj, k, c) ==
  IF ~k.ok \/ CharAt(t, c) # ":" THEN SyntaxError
  ELSE LET r == ParseValue(t, SkipWhitespace(t, c + 1))
       IN MemberParsed(t, obj, k.val, r, SkipWhitespace(t, r.next))

ParseMembers(t, i, obj) ==
  IF CharAt(t, i) # "\"" THEN SyntaxError
  ELSE LET k == ParseString(t, i)
       IN MemberAfterKey(t, obj, k, SkipWhitespace(t, k.next))

\* the value that starts at position i, which holds no whitespace
ParseValue(t, i) ==
  IF StartsAt(t, i, "null") THEN Parsed(Null, i + 4)
  ELSE IF StartsAt(t, i, "true") THEN Parsed(Bool(TRUE), i + 4)
  ELSE IF StartsAt(t, i, "false") THEN Parsed(Bool(FALSE), i + 5)
  ELSE IF IsDigit(CharAt(t, i))
    THEN Parsed(Num(DigitsValue(t, i, DigitsEnd(t, i) - 1)), DigitsEnd(t, i))
  ELSE IF CharAt(t, i) = "\"" THEN
    (LET r == ParseString(t, i)
     IN IF r.ok THEN Parsed(Str(r.val), r.next) ELSE SyntaxError)
  ELSE IF CharAt(t, i) = "[" THEN
    (IF CharAt(t, SkipWhitespace(t, i + 1)) = "]"
       THEN Parsed(List(<<>>), SkipWhitespace(t, i + 1) + 1)
       ELSE ParseElements(t, SkipWhitespace(t, i + 1), <<>>))
  ELSE IF CharAt(t, i) = "{" THEN
    (IF CharAt(t, SkipWhitespace(t, i + 1)) = "}"
       THEN Parsed(Map(<<>>), SkipWhitespace(t, i + 1) + 1)
       ELSE ParseMembers(t, SkipWhitespace(t, i + 1), Map(<<>>)))
  ELSE SyntaxError

\* the text holds one value and whitespace only
WholeText(t, r) == r.ok /\ SkipWhitespace(t, r.next) > Len(t)

\* JSON.parse(text): ok is false where it throws a SyntaxError
JSONparse(t) ==
  LET r == ParseValue(t, SkipWhitespace(t, 1))
  IN IF WholeText(t, r) THEN r ELSE SyntaxError

\* the text of a number
RECURSIVE NumberText(_)
NumberText(n) ==
  IF n < 10 THEN SubSeq(Digits, n + 1, n + 1)
  ELSE NumberText(n \div 10) \o SubSeq(Digits, (n % 10) + 1, (n % 10) + 1)

Quoted(str) == "\"" \o str \o "\""

\* the line break and the indentation before an entry: nothing without a gap
Break(gap, indent) == IF gap = "" THEN "" ELSE "\n" \o indent

RECURSIVE Stringify(_, _, _)
RECURSIVE JoinElements(_, _, _, _)
RECURSIVE JoinMembers(_, _, _, _)

\* an array element that is undefined is written as null
ElementText(v, gap, indent) ==
  IF IsUndefined(v) THEN "null" ELSE Stringify(v, gap, indent)

\* the first n elements, each on its line when there is a gap
JoinElements(items, n, gap, indent) ==
  IF n = 0 THEN ""
  ELSE JoinElements(items, n - 1, gap, indent)
         \o (IF n > 1 THEN "," ELSE "") \o Break(gap, indent)
         \o ElementText(items[n], gap, indent)

MemberText(pair, gap, indent) ==
  Quoted(pair[1]) \o (IF gap = "" THEN ":" ELSE ": ") \o Stringify(pair[2], gap, indent)

\* a member whose value is undefined is left out
Written(pairs) == SelectSeq(pairs, LAMBDA p : ~IsUndefined(p[2]))

JoinMembers(pairs, n, gap, indent) ==
  IF n = 0 THEN ""
  ELSE JoinMembers(pairs, n - 1, gap, indent)
         \o (IF n > 1 THEN "," ELSE "") \o Break(gap, indent)
         \o MemberText(pairs[n], gap, indent)

\* JSON.stringify(v, null, gap) for a value at the given indentation
Stringify(v, gap, indent) ==
  IF IsNull(v) THEN "null"
  ELSE IF "b" \in DOMAIN v THEN (IF v.b THEN "true" ELSE "false")
  ELSE IF "n" \in DOMAIN v THEN NumberText(v.n)
  ELSE IF "s" \in DOMAIN v THEN Quoted(v.s)
  ELSE IF IsList(v) THEN
    (IF Len(v.l) = 0 THEN "[]"
     ELSE "[" \o JoinElements(v.l, Len(v.l), gap, indent \o gap)
              \o Break(gap, indent) \o "]")
  ELSE IF Len(Written(v.m)) = 0 THEN "{}"
  ELSE "{" \o JoinMembers(Written(v.m), Len(Written(v.m)), gap, indent \o gap)
           \o Break(gap, indent) \o "}"

\* JSON.stringify(v, null, 2)
Pretty(v) == Stringify(v, "  ", "")

\* JSON.stringify(v)
Minified(v) == Stringify(v, "", "")


-----------------------------------------------------------------------------
(* The App component: the editor's text, the debounced automatic            *)
(* conversion, the manual conversion, the toast and the pending timeouts.   *)
(* A handler is an operator from the component's state to its next state;   *)
(* a timeout is a record with the time left until it is due.                *)

DebounceMs == 500
ToastMs == 3000

\* the time that passes in one step of the clock
Step == 250

defaultPadding == [top |-> "0", right |-> "0", bottom |-> "0", left |-> "0"]
defaultDevicePadding ==
  [desktop |-> defaultPadding, tablet |-> defaultPadding, mobile |-> defaultPadding]

\* the options of a first visit
DefaultOptions ==
  [rtlize |-> TRUE, removeMotionFX |-> FALSE, autoFormatOnPaste |-> TRUE,
   autoConvertOnPaste |-> TRUE, autoRename |-> TRUE, removeMargins |-> TRUE,
   removeLevel2Padding |-> TRUE, removeLevel3Padding |-> TRUE,
   applyMotherPadding |-> TRUE, motherPadding |-> defaultDevicePadding,
   applyLevel2Padding |-> FALSE, level2Padding |-> defaultDevicePadding,
   applyLevel3Padding |-> FALSE, level3Padding |-> defaultDevicePadding]

\* the component's state as one record
App ==
  [inputJSON |-> inputJSON, outputJSON |-> outputJSON, stats |-> stats,
   isProcessing |-> isProcessing, toast |-> toast, options |-> options,
   lastProcessedInput |-> lastProcessedInput, timers |-> timers,
   toastTimeoutRef |-> toastTimeoutRef, sinceInput |-> sinceInput,
   autoRuns |-> autoRuns]

Timeout(ms) == [rem |-> ms]

\* showToast as a mutant writes it: a failure leaves the pending hide
showToastKeepsTimeout(success, message, s) ==
  [s EXCEPT !.toast = [show |-> TRUE, success |-> success, message |-> message],
            !.toastTimeoutRef = IF success THEN Timeout(ToastMs) ELSE @]

\* showToast: the pending hide is cancelled, and only a success arms a new one
showToast(success, message, s) ==
  [s EXCEPT !.toast = [show |-> TRUE, success |-> success, message |-> message],
            !.toastTimeoutRef = IF success THEN Timeout(ToastMs) ELSE NoTimer]

\* the percentage is a quotient: numerator and denominator
Stats(originalBytes, compressedBytes, removedCount) ==
  [originalSize |-> originalBytes, compressedSize |-> compressedBytes,
   reductionPercentage |->
     IF originalBytes > 0
       THEN <<(originalBytes - compressedBytes) * 100, originalBytes>>
       ELSE <<0, 1>>,
   removedKeys |-> removedCount]

\* the try block after a conversion that returned: compressed is the output
\* text (the clipboard and the copied mark of the copy button are left out)
Converted(rawJson, compressed, removedCount, s) ==
  showToast(TRUE, "Optimized & Copied to Clipboard!",
    [s EXCEPT !.outputJSON = compressed,
              !.stats = Stats(Len(rawJson), Len(compressed), removedCount),
              !.lastProcessedInput = rawJson])

\* the catch block
Failed(message, s) == showToast(FALSE, "Conversion Failed: " \o message, s)

\* the try block once the text is parsed, r being what the compressor returned
Compressed(rawJson, r, s) ==
  IF r.threw THEN Failed("TypeError", s)
  ELSE Converted(rawJson, Pretty(r.cleaned), r.removedCount, s)

\* the finally block
Finally(s) == [s EXCEPT !.isProcessing = FALSE]

\* performConversion(rawJson) of a render with the options opts
performConversion(rawJson, opts, s) ==
  IF IsBlank(rawJson) THEN s
  ELSE LET parsed == JSONparse(rawJson)
       IN IF ~parsed.ok
            THEN Finally(Failed("SyntaxError", [s EXCEPT !.isProcessing = TRUE]))
            ELSE Finally(Compressed(rawJson, compressElementorJSON(parsed.val, opts),
                                    [s EXCEPT !.isProcessing = TRUE]))

\* setInputJSON(text)
setInputJSON(text, s) ==
  [s EXCEPT !.inputJSON = text,
            !.sinceInput = IF text = s.inputJSON THEN @ ELSE 0]

\* the cleanup of the effect as a mutant leaves it out
CleanupNothing(s) == s

\* the cleanup of the effect: clearTimeout(timer)
Cleanup(s) == [s EXCEPT !.timers = {}]

\* the body of the effect as a mutant writes it: a blank text empties the
\* output and the stats and leaves lastProcessedInput
AutoConvertKeepsMark(s) ==
  IF IsBlank(s.inputJSON)
    THEN [s EXCEPT !.outputJSON = "", !.stats = Null]
  ELSE IF s.options.autoConvertOnPaste /\ s.inputJSON # s.lastProcessedInput
    THEN [s EXCEPT !.timers = @ \cup
            {[rem |-> DebounceMs, inputJSON |-> s.inputJSON, options |-> s.options]}]
  ELSE s

\* the body of the effect
AutoConvert(s) ==
  IF IsBlank(s.inputJSON)
    THEN [s EXCEPT !.outputJSON = "", !.stats = Null, !.lastProcessedInput = ""]
  ELSE IF s.options.autoConvertOnPaste /\ s.inputJSON # s.lastProcessedInput
    THEN [s EXCEPT !.timers = @ \cup
            {[rem |-> DebounceMs, inputJSON |-> s.inputJSON, options |-> s.options]}]
  ELSE s

\* the render after a handler: the effect runs again when the text or the
\* options (and with them performConversion) changed
Rendered(before, s) ==
  IF s.inputJSON # before.inputJSON \/ s.options # before.options
    THEN AutoConvert(Cleanup(s))
    ELSE s

\* setInputJSON(formatted) and its mark, when the text is not yet formatted
Formatted(formatted, t, s) ==
  IF formatted = t.inputJSON THEN s
  ELSE [setInputJSON(formatted, s) EXCEPT !.lastProcessedInput = formatted]

\* the formatting step of the debounce callback t
AutoFormat(t, s) ==
  IF ~t.options.autoFormatOnPaste THEN s
  ELSE LET parsed == JSONparse(t.inputJSON)
       IN IF ~parsed.ok THEN s ELSE Formatted(Pretty(parsed.val), t, s)

\* the debounce callback t
Callback(t, s) == AutoFormat(t, performConversion(t.inputJSON, t.options, s))

\* the user acted: the count of callbacks starts again
UserActs(s) == [s EXCEPT !.autoRuns = 0]

\* the next state of the component is s
Becomes(s) ==
  /\ inputJSON' = s.inputJSON
  /\ outputJSON' = s.outputJSON
  /\ stats' = s.stats
  /\ isProcessing' = s.isProcessing
  /\ toast' = s.toast
  /\ options' = s.options
  /\ lastProcessedInput' = s.lastProcessedInput
  /\ timers' = s.timers
  /\ toastTimeoutRef' = s.toastTimeoutRef
  /\ sinceInput' = s.sinceInput
  /\ autoRuns' = s.autoRuns
  /\ UNCHANGED <<input, input0, pc, result, trace, calls>>

\* a container whose title is a number
TitledText == "{\"elType\":\"container\",\"settings\":{\"_title\":7}}"

\* the texts the user types, loads or pastes: whitespace, broken JSON, a list
\* in one line and the titled container
Texts == {" ", "{", "[null]", TitledText}

\* the switches of the settings panel that the model operates
Switches == {"autoConvertOnPaste", "autoFormatOnPaste"}

InitApp ==
  /\ AppMounted
  /\ options = DefaultOptions
  /\ input = Null
  /\ input0 = Null
  /\ pc = "mounted"
  /\ result = NoResult
  /\ trace = NoTrace
  /\ calls = <<>>

\* the editor's onChange, or a file that was read: setInputJSON(text)
EditInput ==
  \E text \in Texts :
    /\ text # inputJSON
    /\ Becomes(Rendered(App, UserActs(setInputJSON(text, App))))

\* the trash button: setInputJSON('')
ClearInput ==
  /\ inputJSON # ""
  /\ Becomes(Rendered(App, UserActs(setInputJSON("", App))))

\* handlePaste with the text of the clipboard
handlePaste ==
  \E text \in Texts \cup {""} :
    Becomes(Rendered(App,
      IF text # ""
        THEN showToast(TRUE, "Pasted from Clipboard!",
                       UserActs(setInputJSON(text, App)))
        ELSE showToast(FALSE, "Clipboard is empty", UserActs(App))))

\* handlePaste when the clipboard cannot be read
handlePasteDenied ==
  Becomes(showToast(FALSE, "Clipboard access denied", UserActs(App)))

\* the Convert button, enabled while there is text and nothing is processed
handleCompress ==
  /\ inputJSON # ""
  /\ ~isProcessing
  /\ Becomes(Rendered(App, performConversion(inputJSON, options, UserActs(App))))

\* handlePrettify and handleMinify: text is the field's text, formatted the
\* way the button asks
Reformat(target, text, gap, s) ==
  IF text = "" THEN s
  ELSE LET parsed == JSONparse(text)
       IN IF ~parsed.ok THEN showToast(FALSE, "Invalid JSON", s)
          ELSE IF target = "input"
            THEN setInputJSON(Stringify(parsed.val, gap, ""), s)
          ELSE [s EXCEPT !.outputJSON = Stringify(parsed.val, gap, "")]

handlePrettify ==
  \E target \in {"input", "output"} :
    /\ (IF target = "input" THEN inputJSON ELSE outputJSON) # ""
    /\ Becomes(Rendered(App,
         Reformat(target, IF target = "input" THEN inputJSON ELSE outputJSON,
                  "  ", UserActs(App))))

handleMinify ==
  \E target \in {"input", "output"} :
    /\ (IF target = "input" THEN inputJSON ELSE outputJSON) # ""
    /\ Becomes(Rendered(App,
         Reformat(target, IF target = "input" THEN inputJSON ELSE outputJSON,
                  "", UserActs(App))))

\* a switch of the settings panel: setOptions(p => ({...p, [name]: v}))
SetOption ==
  \E name \in Switches :
    Becomes(Rendered(App, [UserActs(App) EXCEPT !.options[name] = ~@]))

\* a click on the toast
DismissToast ==
  /\ toast.show
  /\ Becomes([UserActs(App) EXCEPT !.toast.show = FALSE])

\* the debounce timeout t is due and its callback runs
Fire(t) ==
  /\ t.rem = 0
  /\ Becomes(Rendered(App,
       Callback(t, [App EXCEPT !.timers = @ \ {t}, !.autoRuns = @ + 1])))

TimerFires == \E t \in timers : Fire(t)

\* the timeout of the toast is due
ToastTimerFires ==
  /\ toastTimeoutRef # NoTimer
  /\ toastTimeoutRef.rem = 0
  /\ Becomes([App EXCEPT !.toast.show = FALSE, !.toastTimeoutRef = NoTimer])

\* what is left of a timeout after one step of the clock
Later(t) == [t EXCEPT !.rem = IF @ > Step THEN @ - Step ELSE 0]

\* the state after one step of the clock
Elapsed(s) ==
  [s EXCEPT !.timers = {Later(t) : t \in @},
            !.toastTimeoutRef = IF @ = NoTimer THEN @ ELSE Later(@),
            !.sinceInput = IF @ + Step < DebounceMs THEN @ + Step ELSE DebounceMs]

\* time passes
Advance ==
  /\ Elapsed(App) # App
  /\ Becomes(Elapsed(App))

UserStep ==
  \/ EditInput
  \/ ClearInput
  \/ handlePaste
  \/ handlePasteDenied
  \/ handleCompress
  \/ handlePrettify
  \/ handleMinify
  \/ SetOption
  \/ DismissToast

NextApp ==
  \/ UserStep
  \/ TimerFires
  \/ ToastTimerFires
  \/ Advance

SpecApp == InitApp /\ [][NextApp]_vars


-----------------------------------------------------------------------------
(* Properties of the App component *)

\* C26: the automatic conversion is debounced.  A debounce callback runs only
\* when the automatic conversion is switched on, when DebounceMs have passed
\* since the input text last changed, and on the text the editor shows: every
\* change of the text has cancelled the timeout armed for the text before it,
\* so at most one timeout is pending.  With the automatic conversion switched
\* off no timeout is pending, so no callback ever runs.
C26_AutoConversionDebounced ==
  /\ [][\A t \in timers :
          Fire(t) => /\ options.autoConvertOnPaste
                     /\ sinceInput >= DebounceMs
                     /\ t.inputJSON = inputJSON
                     /\ ~IsBlank(inputJSON)]_vars
  /\ [](Cardinality(timers) <= 1)
  /\ [](~options.autoConvertOnPaste => timers = {})

\* a callback ran since the user last acted and converted the text the editor
\* shows
C26_Witness ==
  /\ autoRuns = 1
  /\ options.autoConvertOnPaste
  /\ ~options.autoFormatOnPaste
  /\ inputJSON = "[null]"
  /\ lastProcessedInput = inputJSON
  /\ outputJSON = "[]"
  /\ timers = {}


\* C27: the formatting step does not start another conversion.  When the
\* callback of a parseable text runs with the automatic formatting on, the text
\* of the editor becomes the pretty-printed text, lastProcessedInput is the text
\* shown, no timeout is pending after the step, and the callback is the only one
\* since the user last acted: as long as the user does not act again, the
\* component rests with no timeout pending.
C27_AutoFormatDoesNotRetrigger ==
  /\ [][\A t \in timers :
          (Fire(t) /\ t.options.autoFormatOnPaste /\ JSONparse(t.inputJSON).ok)
            => /\ inputJSON' = Pretty(JSONparse(t.inputJSON).val)
               /\ lastProcessedInput' = inputJSON'
               /\ timers' = {}
               /\ autoRuns' = 1]_vars
  /\ [](autoRuns <= 1)
  /\ [](autoRuns = 1 => timers = {})

\* C28: a text is converted at most once.  When a debounce callback runs, its
\* text has not been converted since the text last changed: a manual conversion
\* made while the timeout was pending is not repeated by the callback.
C28_AtMostOneConversionPerInput ==
  [][\A t \in timers : Fire(t) => lastProcessedInput # t.inputJSON]_vars


\* C29: a blank text leaves no result.  While the text of the editor is empty
\* or whitespace only, the output is empty, the stats are null,
\* lastProcessedInput is empty and no timeout is pending; and when a blank text
\* is replaced by a text that is not blank while the automatic conversion is
\* on, a timeout is armed for the new text, whatever was converted before.
C29_BlankInputResets ==
  /\ [](IsBlank(inputJSON) => /\ outputJSON = ""
                              /\ stats = Null
                              /\ lastProcessedInput = ""
                              /\ timers = {})
  /\ [][(IsBlank(inputJSON) /\ ~IsBlank(inputJSON') /\ options'.autoConvertOnPaste)
          => timers' = {[rem |-> DebounceMs, inputJSON |-> inputJSON',
                         options |-> options']}]_vars

\* the text was replaced by whitespace after a conversion whose toast is still
\* shown
C29_Witness ==
  /\ inputJSON = " "
  /\ toast.show
  /\ toast.message = "Optimized & Copied to Clipboard!"
  /\ outputJSON = ""
  /\ stats = Null
  /\ lastProcessedInput = ""


\* performConversion(rawJson) gets past its guard and ends in its catch block
AttemptFails(rawJson, opts) ==
  /\ ~IsBlank(rawJson)
  /\ \/ ~JSONparse(rawJson).ok
     \/ compressElementorJSON(JSONparse(rawJson).val, opts).threw

\* what a conversion attempt leaves alone when it fails
LeavesResult(s) ==
  /\ s.outputJSON = outputJSON
  /\ s.stats = stats
  /\ s.lastProcessedInput = lastProcessedInput

\* a toast of a failure is shown and no timeout will hide it
FailureShown(t, ref) == t.show /\ ~t.success /\ ref = NoTimer

\* C30: a conversion attempt that fails, because the text does not parse or the
\* compressor throws, leaves the output, the stats and lastProcessedInput as
\* they were and shows a failure toast with no timeout to hide it, whether the
\* attempt is made by the Convert button (a step that leaves the text, the
\* options and the timeouts alone) or by the debounce callback; no timeout ever
\* hides a failure toast, and isProcessing is false after every attempt.
C30_FailedConversionLeavesResult ==
  /\ [][(UNCHANGED <<inputJSON, options, timers>> /\ toast'.show /\ handleCompress
            /\ AttemptFails(inputJSON, options))
          => /\ LeavesResult(performConversion(inputJSON, options, App))
             /\ outputJSON' = outputJSON
             /\ stats' = stats
             /\ lastProcessedInput' = lastProcessedInput
             /\ FailureShown(toast', toastTimeoutRef')]_vars
  /\ [][\A t \in timers :
          (Fire(t) /\ AttemptFails(t.inputJSON, t.options))
            => /\ LeavesResult(performConversion(t.inputJSON, t.options, App))
               /\ outputJSON' = outputJSON
               /\ stats' = stats
               /\ FailureShown(toast', toastTimeoutRef')]_vars
  /\ [][ToastTimerFires => toast.success]_vars
  /\ []((toast.show /\ ~toast.success) => toastTimeoutRef = NoTimer)
  /\ [](~isProcessing)

\* broken JSON was not converted: the failure toast is shown without a timeout,
\* and the result of the conversion before it is still there
C30_Witness ==
  /\ inputJSON = "{"
  /\ toast = [show |-> TRUE, success |-> FALSE,
              message |-> "Conversion Failed: SyntaxError"]
  /\ toastTimeoutRef = NoTimer
  /\ outputJSON = "[]"
  /\ stats # Null
  /\ lastProcessedInput = "[null]"
  /\ ~isProcessing

====
